---- MODULE Spec2Model ----
(***************************************************************************)
(* Verification model of the chitin-core daemon: the capsule (Polyp)      *)
(* store with its secondary state index, the validator (Tide) loop with   *)
(* its Scoring and epoch-boundary handlers, the hardening pipeline, the   *)
(* epoch scheduler, peer/receive_polyp and the pull-sync loop.            *)
(*                                                                         *)
(* Specifications:                                                         *)
(*   StoreSpec  the RocksStore under concurrent callers, one RocksDB      *)
(*              operation (get / delete / put / iterator step) per step.  *)
(*   Spec       the daemon in hybrid mode: scheduler, validator loop,     *)
(*              RPC peer/receive_polyp and pull-sync over one store.      *)
(*   LiveSpec   Spec with weak fairness on the validator loop.            *)
(***************************************************************************)
EXTENDS Integers, Sequences, FiniteSets, TLC

(***************************************************************************)
(* Bounds of the model.                                                    *)
(***************************************************************************)
\* number of distinct capsule ids
NumIds == 2
\* number of save_polyp calls issued in StoreSpec
MaxSaves == 3
\* number of list_polyps_by_state calls issued in StoreSpec
MaxLists == 2

Ids == 1..NumIds

(***************************************************************************)
(* Option<T>: None is the empty sequence, Some(x) the one-element one.     *)
(***************************************************************************)
None == <<>>
Some(x) == <<x>>
IsSome(o) == o # <<>>
Unwrap(o) == o[1]

(***************************************************************************)
(* chitin-core: PolypState and Polyp.  Molted carries its successor id in  *)
(* the source; the state index only uses its tag.  Timestamps are left out.*)
(***************************************************************************)
PolypState == {"Draft", "Soft", "UnderReview", "Approved", "Hardened", "Rejected", "Molted"}

\* what Polyp::verify_signature makes of the signature a capsule carries
\* ("none": the capsule carries no signature)
Signatures == {"none", "valid", "invalid", "unverifiable"}

Polyp(id, state, consensus, hardening) ==
    [id |-> id, state |-> state, consensus |-> consensus, hardening |-> hardening,
     signature |-> "none"]

\* rocks.rs state_tag: one tag per state
state_tag(state) ==
    CASE state = "Draft" -> "draft"
      [] state = "Soft" -> "soft"
      [] state = "UnderReview" -> "under_review"
      [] state = "Approved" -> "approved"
      [] state = "Hardened" -> "hardened"
      [] state = "Rejected" -> "rejected"
      [] state = "Molted" -> "molted"

(***************************************************************************)
(* RocksStore.  The database holds two key families:                       *)
(*   polyp:{uuid}          -> the JSON of the Polyp      (field polyp)     *)
(*   state:{tag}:{uuid}    -> empty                      (field state)     *)
(* Every operator below is one RocksDB call, applied to a database value.  *)
(***************************************************************************)
EmptyDb == [polyp |-> [i \in Ids |-> None], state |-> {}]

polyp_key(id) == id
state_key(state, id) == <<state_tag(state), id>>

get_polyp_sync(d, id) == d.polyp[polyp_key(id)]

put_polyp(d, p) == [d EXCEPT !.polyp[polyp_key(p.id)] = Some(p)]

put_state(d, p) == [d EXCEPT !.state = @ \cup {state_key(p.state, p.id)}]

remove_state_index(d, state, id) == [d EXCEPT !.state = @ \ {state_key(state, id)}]

\* rocks.rs store_polyp_inner: primary put, then index put
store_polyp_inner(d, p) == put_state(put_polyp(d, p), p)

\* the delete that save_polyp_sync performs before store_polyp_inner
remove_old_index(d, existing, p) ==
    IF IsSome(existing) /\ Unwrap(existing).state # p.state
    THEN remove_state_index(d, Unwrap(existing).state, p.id)
    ELSE d

\* rocks.rs save_polyp_sync run to completion without interleaving
save_polyp_sync(d, p) ==
    store_polyp_inner(remove_old_index(d, get_polyp_sync(d, p.id), p), p)

\* ascending sequence of a finite set of ids (RocksDB iterates in key order)
RECURSIVE SortedIds(_)
SortedIds(S) ==
    IF S = {} THEN <<>>
    ELSE LET m == CHOOSE x \in S : \A y \in S : x <= y
         IN <<m>> \o SortedIds(S \ {m})

\* the keys a prefix iterator over state:{tag}: yields, in key order
prefix_iterator(d, state) ==
    SortedIds({i \in Ids : state_key(state, i) \in d.state})

\* the loop body of list_polyps_by_state for one key: push the primary record if any
list_push(d, out, id) ==
    IF IsSome(get_polyp_sync(d, id)) THEN Append(out, Unwrap(get_polyp_sync(d, id))) ELSE out

RECURSIVE list_collect(_, _, _)
list_collect(d, keys, out) ==
    IF keys = <<>> THEN out
    ELSE list_collect(d, Tail(keys), list_push(d, out, Head(keys)))

\* rocks.rs list_polyps_by_state run to completion without interleaving
list_polyps_by_state(d, state) == list_collect(d, prefix_iterator(d, state), <<>>)

(***************************************************************************)
(* f64 weights are modelled as exact fractions [n, d] in lowest terms.     *)
(* The operators bind their arguments (a \in {x}) so that each argument is *)
(* evaluated once.                                                         *)
(***************************************************************************)
RECURSIVE Gcd(_, _)
Gcd(a, b) == IF b = 0 THEN a ELSE Gcd(b, a % b)

Rat(x, y) ==
    CHOOSE r \in {IF n = 0 THEN [n |-> 0, d |-> 1]
                  ELSE [n |-> n \div Gcd(n, d), d |-> d \div Gcd(n, d)] :
                  n \in {x}, d \in {y}} : TRUE
Zero == [n |-> 0, d |-> 1]
RatAdd(x, y) == CHOOSE r \in {Rat(a.n * b.d + b.n * a.d, a.d * b.d) : a \in {x}, b \in {y}} : TRUE
RatDiv(x, y) == CHOOSE r \in {Rat(a.n * b.d, a.d * b.n) : a \in {x}, b \in {y}} : TRUE
RatGt(x, y) == \E a \in {x}, b \in {y} : a.n * b.d > b.n * a.d
RatGe(x, y) == \E a \in {x}, b \in {y} : a.n * b.d >= b.n * a.d

RatSub(x, y) == CHOOSE r \in {Rat(a.n * b.d - b.n * a.d, a.d * b.d) : a \in {x}, b \in {y}} : TRUE
RatMul(x, y) == CHOOSE r \in {Rat(a.n * b.n, a.d * b.d) : a \in {x}, b \in {y}} : TRUE
RatAbs(x) == CHOOSE r \in {[n |-> IF a.n < 0 THEN -a.n ELSE a.n, d |-> a.d] : a \in {x}} : TRUE
One == [n |-> 1, d |-> 1]

(***************************************************************************)
(* f64 arithmetic: every operation yields the exact result rounded to the  *)
(* nearest float, ties to even.  A float of the model keeps MantissaBits   *)
(* significant bits, where an f64 keeps 53; exponents are not bounded.     *)
(***************************************************************************)
MantissaBits == 3

\* n / d rounded to the nearest integer, ties to the even one
RoundHalfEven(n, d) ==
    LET q == n \div d
        r == n % d
    IN IF 2 * r < d THEN q
       ELSE IF 2 * r > d THEN q + 1
       ELSE IF q % 2 = 0 THEN q ELSE q + 1

\* the exponent e of a / d > 0: 2^e <= a / d < 2^(e+1)
RECURSIVE exponent(_, _)
exponent(a, d) ==
    IF a >= 2 * d THEN exponent(a, 2 * d) + 1
    ELSE IF a < d THEN exponent(2 * a, d) - 1
    ELSE 0

\* the float nearest to a fraction
f64(x) ==
    CHOOSE r \in {IF q.n = 0 THEN Zero
                  ELSE LET a == IF q.n < 0 THEN -q.n ELSE q.n
                           sign == IF q.n < 0 THEN -1 ELSE 1
                           s == exponent(a, q.d) - MantissaBits + 1
                       IN IF s >= 0
                          THEN Rat(sign * RoundHalfEven(a, q.d * 2 ^ s) * 2 ^ s, 1)
                          ELSE Rat(sign * RoundHalfEven(a * 2 ^ (-s), q.d), 2 ^ (-s)) :
                  q \in {x}} : TRUE

\* `n as f64` of an unsigned integer
as_f64(n) == f64(Rat(n, 1))

f64_add(x, y) == f64(RatAdd(x, y))
f64_sub(x, y) == f64(RatSub(x, y))
f64_mul(x, y) == f64(RatMul(x, y))
f64_div(x, y) == f64(RatDiv(x, y))

\* Iterator::sum of f64: a left fold from 0.0
RECURSIVE f64_fold(_, _)
f64_fold(row, acc) ==
    IF row = <<>> THEN acc ELSE f64_fold(Tail(row), f64_add(acc, Head(row)))
f64_sum(row) == f64_fold(row, Zero)

(***************************************************************************)
(* chitin-consensus: scoring, WeightMatrix, yuma_semantic_consensus.       *)
(***************************************************************************)
\* scoring.rs weighted_score of the capsule's content, in hundredths; the
\* content of a capsule is fixed by its id, and the zk_validity term keeps
\* every score above zero
weighted_score(p) == f64(Rat(2 * p.id - 1, 100))

\* weights.rs WeightMatrix::new
WeightMatrix_new(validators, corals) ==
    [v \in 1..validators |-> [c \in 1..corals |-> Zero]]

\* weights.rs WeightMatrix::normalize, on one row
normalize_row(row) ==
    IF RatGt(f64_sum(row), Zero)
    THEN [c \in 1..Len(row) |-> f64_div(row[c], f64_sum(row))]
    ELSE row

normalize(weights) == [v \in 1..Len(weights) |-> normalize_row(weights[v])]

\* consensus_runner.rs APPROVAL_THRESHOLD = 0.3
APPROVAL_THRESHOLD == f64(Rat(3, 10))
\* consensus_runner.rs line 82: kappa = 0.5, bond_penalty = 0.1, alpha = 0.1
KAPPA == Rat(1, 2)
BOND_PENALTY == f64(Rat(1, 10))
ALPHA == f64(Rat(1, 10))

\* yuma.rs step 1: stakes normalised to sum 1, all zero when the total is 0
norm_stakes(stakes) ==
    LET total_stake == f64_sum([i \in 1..Len(stakes) |-> as_f64(stakes[i])])
    IN [i \in 1..Len(stakes) |->
           IF RatGt(total_stake, Zero) THEN f64_div(as_f64(stakes[i]), total_stake)
           ELSE Zero]

\* yuma.rs step 3: validators in ascending order of their weight for one
\* coral (sort_by is stable: ties keep validator order)
RECURSIVE sort_by_weight(_, _)
sort_by_weight(S, w) ==
    IF S = {} THEN <<>>
    ELSE LET m == CHOOSE x \in S : \A y \in S :
                      \/ RatGt(w[y], w[x])
                      \/ (~RatGt(w[x], w[y]) /\ x <= y)
         IN <<m>> \o sort_by_weight(S \ {m}, w)

\* yuma.rs step 3: walk the cumulative stake until it reaches kappa
RECURSIVE median_walk(_, _, _, _, _, _)
median_walk(order, w, st, kappa, cumulative, median_val) ==
    IF order = <<>> THEN median_val
    ELSE LET i == Head(order)
             c == f64_add(cumulative, st[i])
         IN IF RatGe(c, kappa) THEN w[i]
            ELSE median_walk(Tail(order), w, st, kappa, c, w[i])

\* yuma.rs lines 92-94, 120, 138: norm_weights[i][j] is indexed for every
\* validator i < n_validators and every coral j < n_corals; an index past
\* the end of the matrix or of a row panics
index_in_bounds(n_validators, n_corals, weights) ==
    n_corals = 0 \/ (/\ Len(weights) >= n_validators
                     /\ \A i \in 1..n_validators : Len(weights[i]) >= n_corals)

\* yuma.rs ConsensusResult; panicked marks a call that did not return
ConsensusResult(consensus_weights, incentives, dividends, bonds) ==
    [panicked |-> FALSE, consensus_weights |-> consensus_weights,
     incentives |-> incentives, dividends |-> dividends, bonds |-> bonds]
ConsensusPanic ==
    [panicked |-> TRUE, consensus_weights |-> <<>>, incentives |-> <<>>,
     dividends |-> <<>>, bonds |-> <<>>]

\* yuma.rs steps 1-7 on a matrix every index of which is in bounds
yuma_steps(stakes, weights, prev_bonds, kappa, bond_penalty, alpha) ==
    LET n_validators == Len(stakes)
        n_corals == IF weights = <<>> THEN 0 ELSE Len(weights[1])
        ns == norm_stakes(stakes)
        norm_weights == normalize(weights)
        col(j) == [i \in 1..n_validators |-> norm_weights[i][j]]
        consensus_weights ==
            [j \in 1..n_corals |->
                median_walk(sort_by_weight(1..n_validators, col(j)),
                            col(j), ns, kappa, Zero, Zero)]
        deviation(i, j) == RatAbs(f64_sub(norm_weights[i][j], consensus_weights[j]))
        agreement ==
            [i \in 1..n_validators |->
                IF n_corals = 0 THEN One
                ELSE f64_sub(One, f64_div(f64_sum([j \in 1..n_corals |-> deviation(i, j)]),
                                          as_f64(n_corals)))]
        prev(i, j) == IF i <= Len(prev_bonds) /\ j <= Len(prev_bonds[i])
                      THEN prev_bonds[i][j] ELSE Zero
        ema(i, j) == f64_add(f64_mul(alpha, norm_weights[i][j]),
                             f64_mul(f64_sub(One, alpha), prev(i, j)))
        penalty(i, j) == f64_mul(bond_penalty, deviation(i, j))
        bond(i, j) == IF RatGt(f64_sub(ema(i, j), penalty(i, j)), Zero)
                      THEN f64_sub(ema(i, j), penalty(i, j)) ELSE Zero
        bonds == [i \in 1..n_validators |-> [j \in 1..n_corals |-> bond(i, j)]]
        cw_sum == f64_sum(consensus_weights)
        incentives ==
            [j \in 1..n_corals |->
                IF RatGt(cw_sum, Zero) THEN f64_div(consensus_weights[j], cw_sum) ELSE Zero]
        raw_dividends ==
            [i \in 1..n_validators |->
                f64_mul(f64_mul(agreement[i], ns[i]), f64_sum(bonds[i]))]
        div_sum == f64_sum(raw_dividends)
        dividends ==
            [i \in 1..n_validators |->
                IF RatGt(div_sum, Zero) THEN f64_div(raw_dividends[i], div_sum) ELSE Zero]
    IN ConsensusResult(consensus_weights, incentives, dividends, bonds)

\* yuma.rs yuma_semantic_consensus
yuma_semantic_consensus(stakes, weights, prev_bonds, kappa, bond_penalty, alpha) ==
    IF Len(stakes) = 0 THEN ConsensusResult(<<>>, <<>>, <<>>, <<>>)
    ELSE IF ~index_in_bounds(Len(stakes), IF weights = <<>> THEN 0 ELSE Len(weights[1]),
                             weights)
         THEN ConsensusPanic
         ELSE yuma_steps(stakes, weights, prev_bonds, kappa, bond_penalty, alpha)

(***************************************************************************)
(* chitin-consensus: EpochManager.                                         *)
(***************************************************************************)
\* blocks_per_epoch of the configuration
BlocksPerEpoch == 4

\* epoch.rs EpochManager::new(blocks_per_epoch)
EpochManager(blocks_per_epoch) ==
    [current_epoch |-> 0, phase |-> "Open", blocks_per_epoch |-> blocks_per_epoch]

\* the EpochManager of a daemon whose configuration has BlocksPerEpoch
EpochManager_new == EpochManager(BlocksPerEpoch)

\* epoch.rs EpochManager::advance_block on a manager of any epoch length
EpochManager_advance_block(em, block) ==
    LET new_epoch == block \div em.blocks_per_epoch
        block_in_epoch == block % em.blocks_per_epoch
        fraction == f64_div(as_f64(block_in_epoch), as_f64(em.blocks_per_epoch))
    IN [em EXCEPT !.current_epoch = new_epoch,
                  !.phase = IF RatGt(Rat(1, 2), fraction) THEN "Open"
                            ELSE IF RatGt(Rat(3, 4), fraction) THEN "Scoring"
                            ELSE "Committing"]

(***************************************************************************)
(* State.                                                                  *)
(***************************************************************************)
VARIABLES
    db,                     \* the RocksDB of the primary capsule store
    vector_index,           \* InMemoryVectorIndex: the ids that have a vector
    local_cache,            \* HardenedStore.local_cache: cid blobs and id -> cid
    weight_matrix,          \* shared.weight_matrix
    wm_ids,                 \* history: the capsule id scored into each column
    scoring,                \* history: the epochs whose Scoring handler started, returned, wrote the matrix,
                            \* and the epochs whose PhaseChanged Scoring the scheduler sent
    bond_matrix,            \* shared.bond_matrix, by its shape <<rows, columns>>
    last_consensus_result,  \* shared.last_consensus_result
    trust_matrix,           \* shared.trust_matrix: the pairs set to 1.0
    metagraph_manager,      \* shared.metagraph_manager
    epoch_manager,          \* shared.epoch_manager
    current_block,          \* EpochScheduler.current_block
    event_q,                \* the broadcast channel: the events the validator has yet to receive
    lagged,                 \* the broadcast channel: events overwritten before the validator received them
    tide,                   \* the validator loop and the handler it runs
    sy,                     \* the pull-sync loop
    rp,                     \* the peer/receive_polyp handler in flight
    budget,                 \* storage faults injected and sync rounds started so far
    sv,                     \* StoreSpec: per task, the save_polyp call in flight
    ls,                     \* StoreSpec: the list_polyps_by_state call in flight
    calls,                  \* StoreSpec: number of save / list calls issued
    updates,                \* MetaSpec: the MetagraphManager::update calls made, with results
    pushes,                 \* history: the peer/receive_polyp pushes sent, as <<peer URL, capsule id>>
    submitted,              \* history: the ids of the capsules created by a local polyp/submit
    served,                 \* the id list of the last peer/list_polyp_ids answer
    rpc,                    \* the last request dispatch answered: its method and JsonRpcResponse
    manager,                \* EpochSpec: an EpochManager of any epoch length
    height,                 \* EpochSpec: the block of the last advance_block call on it
    hs_calls,               \* HardenedSpec: the calls of the HardenedStore that returned
    yuma_call,              \* YumaSpec: the arguments of a yuma_semantic_consensus call and its result
    proc,                   \* ShutdownSpec: the node type, the OS signal and the tasks of main
    vbf,                    \* VbfSpec: a VectorBloomFilter, the ids inserted and its round trip
    state_machine,          \* StateSpec: the NodeStateMachine and the transitions requested
    receivers,              \* RaceSpec: the peer/receive_polyp handlers that run in parallel
    review                  \* ReviewSpec: the capsules that wait for a decision, epoch after epoch

matrixVars == <<weight_matrix, wm_ids, bond_matrix, last_consensus_result,
                trust_matrix, metagraph_manager>>
sharedVars == <<matrixVars, scoring>>
schedVars == <<epoch_manager, current_block>>
epochVars == <<manager, height>>
libVars == <<vbf, state_machine, receivers, review>>
pureVars == <<epochVars, hs_calls, yuma_call, proc, libVars>>
callVars == <<rpc, pureVars>>
unitVars == <<updates, pushes, submitted, served, callVars>>
chanVars == <<event_q, lagged>>
daemonVars == <<vector_index, local_cache, sharedVars, schedVars, chanVars, tide, sy, rp, budget,
                unitVars>>
storeVars == <<sv, ls, calls>>
otherVars == <<storeVars, unitVars>>
vars == <<db, daemonVars, storeVars>>

(***************************************************************************)
(* StoreSpec: concurrent callers of the RocksStore.  The executor is      *)
(* multi-threaded and RocksStore takes no lock, so the RocksDB calls of   *)
(* two save_polyp calls, and of a list, interleave.                       *)
(***************************************************************************)
Tasks == {"t1", "t2"}
SaveStates == {"Soft", "UnderReview"}

IdleSave == [pc |-> "idle", polyp |-> None, existing |-> None]
IdleList == [pc |-> "idle", state |-> "Soft", keys |-> <<>>, out |-> <<>>]

\* a task that is not running
IdleTide == [pc |-> "idle", epoch |-> 0, polyps |-> <<>>, k |-> 0, result |-> None,
             listed |-> <<>>, n_validators |-> 0, cid |-> None, lineage |-> None, failed |-> {},
             hardened_count |-> 0]
IdleSync == [pc |-> "idle", local_ids |-> {}, peers |-> <<>>, missing |-> <<>>]
IdleReceive == [pc |-> "idle", polyp |-> None, resp |-> None]

\* the daemon after main.rs has constructed the stores, DaemonSharedState::new,
\* the event channel, the scheduler (current_block 0) and the tasks, with
\* blocks_per_epoch of its configuration
DaemonConfigured(blocks_per_epoch) ==
    /\ vector_index = {}
    /\ local_cache = [cid |-> {}, map |-> [i \in Ids |-> None]]
    /\ weight_matrix = WeightMatrix_new(0, 0)
    /\ wm_ids = <<>>
    /\ scoring = [started |-> {}, done |-> {}, wrote |-> {}, sent |-> {}]
    /\ bond_matrix = <<0, 0>>
    /\ last_consensus_result = None
    /\ trust_matrix = {}
    /\ metagraph_manager = [current |-> None, last_epoch |-> None]
    /\ epoch_manager = EpochManager(blocks_per_epoch)
    /\ current_block = 0
    /\ event_q = <<>>
    /\ lagged = 0
    /\ tide = IdleTide
    /\ sy = IdleSync
    /\ rp = IdleReceive
    /\ budget = [faults |-> 0, rounds |-> 0]
    /\ updates = <<>>
    /\ pushes = {}
    /\ submitted = {}
    /\ served = <<>>
    /\ rpc = None

DaemonInit == DaemonConfigured(BlocksPerEpoch)

\* the EpochManager of EpochSpec before its first call
EpochIdle ==
    /\ manager = EpochManager_new
    /\ height = 0

\* the units that the specifications of single components drive, at rest
CallsIdle ==
    /\ hs_calls = <<>>
    /\ yuma_call = None
    /\ vbf = None
    /\ state_machine = None
    /\ receivers = <<>>
    /\ review = None

\* main.rs: the process after the tasks of a node type were spawned; the
\* coral loop and the pull-sync loop exist in hybrid mode only
Process(node_type) ==
    [node_type |-> node_type, signal |-> FALSE, in_flight |-> {}, main |-> "running",
     scheduler |-> "running",
     coral |-> IF node_type = "hybrid" THEN "running" ELSE "none",
     sync |-> IF node_type = "hybrid" THEN "running" ELSE "none"]

UnitIdle ==
    /\ EpochIdle
    /\ CallsIdle
    /\ proc = Process("tide")

StoreIdle ==
    /\ sv = [t \in Tasks |-> IdleSave]
    /\ ls = IdleList
    /\ calls = [save |-> 0, list |-> 0]

StoreInit ==
    /\ db = EmptyDb
    /\ StoreIdle
    /\ DaemonInit
    /\ UnitIdle

\* save_polyp_sync line 101: get_polyp_sync(&polyp.id)
SaveGet(t, id, s) ==
    /\ sv[t].pc = "idle"
    /\ calls.save < MaxSaves
    /\ calls' = [calls EXCEPT !.save = @ + 1]
    /\ sv' = [sv EXCEPT ![t] = [pc |-> "remove",
                                polyp |-> Some(Polyp(id, s, None, None)),
                                existing |-> get_polyp_sync(db, id)]]
    /\ UNCHANGED <<db, ls, daemonVars>>

\* save_polyp_sync lines 102-104: remove the old index entry if the state changed
SaveRemove(t) ==
    /\ sv[t].pc = "remove"
    /\ db' = remove_old_index(db, sv[t].existing, Unwrap(sv[t].polyp))
    /\ sv' = [sv EXCEPT ![t].pc = "put_polyp"]
    /\ UNCHANGED <<ls, calls, daemonVars>>

\* store_polyp_inner line 74: put the primary record
SavePutPolyp(t) ==
    /\ sv[t].pc = "put_polyp"
    /\ db' = put_polyp(db, Unwrap(sv[t].polyp))
    /\ sv' = [sv EXCEPT ![t].pc = "put_state"]
    /\ UNCHANGED <<ls, calls, daemonVars>>

\* store_polyp_inner line 76: put the state index entry, and return
SavePutState(t) ==
    /\ sv[t].pc = "put_state"
    /\ db' = put_state(db, Unwrap(sv[t].polyp))
    /\ sv' = [sv EXCEPT ![t] = IdleSave]
    /\ UNCHANGED <<ls, calls, daemonVars>>

\* list_polyps_by_state line 135: the iterator is created (a RocksDB iterator
\* reads the keys as of its creation)
ListSeek(s) ==
    /\ ls.pc = "idle"
    /\ calls.list < MaxLists
    /\ calls' = [calls EXCEPT !.list = @ + 1]
    /\ ls' = [pc |-> "iter", state |-> s, keys |-> prefix_iterator(db, s), out |-> <<>>]
    /\ UNCHANGED <<db, sv, daemonVars>>

\* list_polyps_by_state lines 136-152: one key, one get of the primary record
ListNext ==
    /\ ls.pc = "iter"
    /\ ls.keys # <<>>
    /\ ls' = [ls EXCEPT !.keys = Tail(@), !.out = list_push(db, @, Head(ls.keys))]
    /\ UNCHANGED <<db, sv, calls, daemonVars>>

\* list_polyps_by_state line 155: Ok(polyps)
ListReturn ==
    /\ ls.pc = "iter"
    /\ ls.keys = <<>>
    /\ ls' = [ls EXCEPT !.pc = "done"]
    /\ UNCHANGED <<db, sv, calls, daemonVars>>

\* the caller takes the result
ListTaken ==
    /\ ls.pc = "done"
    /\ ls' = IdleList
    /\ UNCHANGED <<db, sv, calls, daemonVars>>

StoreNext ==
    \/ \E t \in Tasks, id \in Ids, s \in SaveStates : SaveGet(t, id, s)
    \/ \E t \in Tasks : SaveRemove(t)
    \/ \E t \in Tasks : SavePutPolyp(t)
    \/ \E t \in Tasks : SavePutState(t)
    \/ \E s \in SaveStates : ListSeek(s)
    \/ ListNext
    \/ ListReturn
    \/ ListTaken

StoreSpec == StoreInit /\ [][StoreNext]_vars

(***************************************************************************)
(* The daemon.  In Spec a whole save_polyp or list_polyps_by_state call is *)
(* one step (their interleavings are the subject of StoreSpec); a          *)
(* save_polyp call either completes or returns Err at one of its RocksDB   *)
(* calls, with the writes made before the failing call left in place.      *)
(***************************************************************************)
\* last block the scheduler reaches
MaxBlock == 4
\* number of save_polyp calls that fail in one run
MaxFaults == 1
\* number of pull-sync rounds in one run
MaxSyncRounds == 1

\* capacity of the event channel (main.rs creates it with 64), scaled to the
\* number of events of a run
ChannelCapacity == 2

SaveOutcomes == {"ok", "err_get", "err_put_polyp", "err_put_state"}

\* PolypStore::save_polyp: the database after the call, by its outcome
save_polyp(d, p, outcome) ==
    LET removed == remove_old_index(d, get_polyp_sync(d, p.id), p)
    IN CASE outcome = "ok" -> store_polyp_inner(removed, p)
         [] outcome = "err_get" -> d
         [] outcome = "err_put_polyp" -> removed
         [] outcome = "err_put_state" -> put_polyp(removed, p)

\* the outcomes a save can still have, and the fault count after it
CanFault(o) == o = "ok" \/ budget.faults < MaxFaults
Faulted(o) == [budget EXCEPT !.faults = IF o = "ok" THEN @ ELSE @ + 1]

\* events that carry the values of the block before
PhaseChanged_previous(epoch, phase, block) ==
    [type |-> "PhaseChanged", epoch |-> epoch, phase |-> phase, block |-> block - 1]
EpochBoundary_previous(epoch, block) ==
    [type |-> "EpochBoundary", epoch |-> epoch - 1, phase |-> "-", block |-> block]

PhaseChanged(epoch, phase, block) ==
    [type |-> "PhaseChanged", epoch |-> epoch, phase |-> phase, block |-> block]
EpochBoundary(epoch, block) ==
    [type |-> "EpochBoundary", epoch |-> epoch, phase |-> "-", block |-> block]

\* tokio broadcast Sender::send on a channel of the given capacity: the value
\* is queued, and the oldest values beyond the capacity are overwritten and
\* counted as missed by the receiver
broadcast_send(ch, events, capacity) ==
    LET q == ch.q \o events
        over == IF Len(q) > capacity THEN Len(q) - capacity ELSE 0
    IN [q |-> SubSeq(q, over + 1, Len(q)), lagged |-> ch.lagged + over]

\* scheduler.rs EpochScheduler::advance_block, run once per sleep of the loop
SchedulerAdvanceBlock ==
    /\ current_block < MaxBlock
    /\ epoch_manager.blocks_per_epoch # 0
    /\ \E new \in {EpochManager_advance_block(epoch_manager, current_block + 1)} :
       LET prev == epoch_manager
           block == current_block + 1
           boundary == IF new.current_epoch > prev.current_epoch
                       THEN <<EpochBoundary(new.current_epoch, block)>> ELSE <<>>
           phase == IF new.phase # prev.phase
                    THEN <<PhaseChanged(new.current_epoch, new.phase, block)>> ELSE <<>>
           sent == broadcast_send([q |-> event_q, lagged |-> lagged], boundary \o phase,
                                  ChannelCapacity)
       IN /\ current_block' = block
          /\ epoch_manager' = new
          /\ event_q' = sent.q
          /\ lagged' = sent.lagged
          /\ scoring' = IF new.phase # prev.phase /\ new.phase = "Scoring"
                        THEN [scoring EXCEPT !.sent = @ \cup {new.current_epoch}]
                        ELSE scoring
    /\ UNCHANGED <<db, vector_index, local_cache, matrixVars, tide, sy, rp, otherVars, budget>>

\* a loop that would spawn each handler and poll recv again at once
handler_spawned(t) == TRUE

\* tide.rs TideNode::start lines 64-85: the handler of an event is awaited in
\* the arm of the select!, so recv is polled again only after it has returned
handler_awaited(t) == t.pc = "idle"

\* tide.rs TideNode::start: recv of the next event and dispatch to its handler
TideRecv ==
    /\ handler_awaited(tide)
    /\ lagged = 0
    /\ event_q # <<>>
    /\ event_q' = Tail(event_q)
    /\ UNCHANGED lagged
    /\ LET ev == Head(event_q)
       IN /\ tide' = IF ev.type = "PhaseChanged" /\ ev.phase = "Scoring"
                     THEN [IdleTide EXCEPT !.pc = "score_list_soft", !.epoch = ev.epoch]
                     ELSE IF ev.type = "EpochBoundary"
                     THEN [IdleTide EXCEPT !.pc = "read_weights", !.epoch = ev.epoch]
                     ELSE IdleTide
          /\ scoring' = IF ev.type = "PhaseChanged" /\ ev.phase = "Scoring"
                        THEN [scoring EXCEPT !.started = @ \cup {ev.epoch}]
                        ELSE scoring
    /\ UNCHANGED <<db, vector_index, local_cache, matrixVars, schedVars, sy, rp, otherVars, budget>>

\* a loop that would break when recv reports a lag
lag_break(t) == [t EXCEPT !.pc = "stopped"]

\* tide.rs TideNode::start lines 75-77: the Lagged arm only logs
lag_logged(t) == t

\* tide.rs TideNode::start: recv returns Err(Lagged(n)) once for the events the
\* receiver missed; the next recv delivers the oldest event still queued
TideRecvLagged ==
    /\ handler_awaited(tide)
    /\ lagged > 0
    /\ lagged' = 0
    /\ tide' = lag_logged(tide)
    /\ UNCHANGED <<db, vector_index, local_cache, sharedVars, schedVars, event_q, sy, rp,
                   otherVars, budget>>

\* tide.rs TideNode::start lines 63-66: the ctrl_c arm of the select! breaks
\* out of the loop
TideCtrlC ==
    /\ tide.pc = "idle"
    /\ tide' = [tide EXCEPT !.pc = "stopped"]
    /\ UNCHANGED <<db, vector_index, local_cache, sharedVars, schedVars, chanVars, sy, rp,
                   otherVars, budget>>

\* run_scoring_pipeline lines 111-112: list the Soft capsules
ScoreListSoft ==
    /\ tide.pc = "score_list_soft"
    /\ tide' = [tide EXCEPT !.pc = "score_list_under_review",
                            !.polyps = list_polyps_by_state(db, "Soft")]
    /\ UNCHANGED <<db, vector_index, local_cache, sharedVars, schedVars, chanVars, sy, rp, otherVars, budget>>

\* the row run_scoring_pipeline writes: one weighted score per listed capsule
score_row(all_polyps) == [c \in 1..Len(all_polyps) |-> weighted_score(all_polyps[c])]

\* run_scoring_pipeline lines 113-143: list the UnderReview capsules, and
\* under the write lock replace the weight matrix by the normalised scores
ScoreListUnderReview ==
    /\ tide.pc = "score_list_under_review"
    /\ LET all_polyps == tide.polyps \o list_polyps_by_state(db, "UnderReview")
       IN IF all_polyps = <<>>
          THEN /\ tide' = IdleTide
               /\ scoring' = [scoring EXCEPT !.done = @ \cup {tide.epoch}]
               /\ UNCHANGED <<weight_matrix, wm_ids>>
          ELSE /\ weight_matrix' = normalize(<<score_row(all_polyps)>>)
               /\ wm_ids' = [c \in 1..Len(all_polyps) |-> all_polyps[c].id]
               /\ tide' = [tide EXCEPT !.pc = "score_save", !.polyps = all_polyps, !.k = 1]
               /\ scoring' = [scoring EXCEPT !.wrote = {tide.epoch}]
    /\ UNCHANGED <<db, vector_index, local_cache, bond_matrix, last_consensus_result,
                   trust_matrix, metagraph_manager, schedVars, chanVars, sy, rp, otherVars, budget>>

\* run_scoring_pipeline lines 146-155: one iteration of the transition loop;
\* a failed save is logged and the loop goes on
ScoreSave ==
    /\ tide.pc = "score_save"
    /\ tide.k <= Len(tide.polyps)
    /\ LET polyp == tide.polyps[tide.k]
       IN IF polyp.state = "Soft"
          THEN \E o \in SaveOutcomes :
                   /\ CanFault(o)
                   /\ db' = save_polyp(db, [polyp EXCEPT !.state = "UnderReview"], o)
                   /\ budget' = Faulted(o)
          ELSE UNCHANGED <<db, budget>>
    /\ tide' = [tide EXCEPT !.k = @ + 1]
    /\ UNCHANGED <<vector_index, local_cache, sharedVars, schedVars, chanVars, sy, rp, otherVars>>

\* run_scoring_pipeline lines 157-163: Ok(())
ScoreReturn ==
    /\ tide.pc = "score_save"
    /\ tide.k > Len(tide.polyps)
    /\ tide' = IdleTide
    /\ scoring' = [scoring EXCEPT !.done = @ \cup {tide.epoch}]
    /\ UNCHANGED <<db, vector_index, local_cache, matrixVars, schedVars, chanVars, sy, rp, otherVars, budget>>

(***************************************************************************)
(* consensus_runner.rs run_epoch_consensus.                                *)
(***************************************************************************)
\* a runner that would leave the last consensus result as it was
publish_skipped(cr, result) == cr

\* step 4: the result is stored as the last consensus result
publish_result(cr, result) == Some(result)

\* step 5: the bond matrix is replaced by one of the result's shape
BondMatrix_new(validators, corals) == <<validators, corals>>

\* steps 1-5 (lines 47-105): read the weight matrix; return when it is empty;
\* otherwise run the consensus with stake 100 per validator, publish the
\* result and replace the bond matrix
ReadWeights ==
    /\ tide.pc = "read_weights"
    /\ LET weights == weight_matrix
           n_validators == Len(weights)
           n_corals == IF n_validators > 0 THEN Len(weights[1]) ELSE 0
           stakes == [v \in 1..n_validators |-> 100]
           consensus == yuma_semantic_consensus(stakes, weights, <<>>, KAPPA,
                                                BOND_PENALTY, ALPHA)
       IN IF n_validators = 0 \/ n_corals = 0
          THEN /\ tide' = IdleTide
               /\ UNCHANGED <<last_consensus_result, bond_matrix>>
          ELSE \E result \in {[consensus_weights |-> consensus.consensus_weights]} :
               /\ last_consensus_result' = publish_result(last_consensus_result, result)
               /\ bond_matrix' = BondMatrix_new(n_validators, n_corals)
               /\ tide' = [tide EXCEPT !.pc = "list_under_review", !.result = Some(result),
                                       !.n_validators = n_validators]
    /\ UNCHANGED <<db, vector_index, local_cache, weight_matrix, wm_ids, scoring, trust_matrix,
                   metagraph_manager, schedVars, chanVars, sy, rp, otherVars, budget>>

\* step 6 (lines 107-121): the listed capsules whose index has a consensus
\* weight above the threshold
RECURSIVE approved_from(_, _, _)
approved_from(listed, cw, idx) ==
    IF idx > Len(listed) THEN <<>>
    ELSE (IF idx <= Len(cw) /\ RatGt(cw[idx], APPROVAL_THRESHOLD)
          THEN <<listed[idx]>> ELSE <<>>) \o approved_from(listed, cw, idx + 1)

ListUnderReview ==
    /\ tide.pc = "list_under_review"
    /\ LET under_review_polyps == list_polyps_by_state(db, "UnderReview")
           cw == Unwrap(tide.result).consensus_weights
       IN tide' = [tide EXCEPT !.pc = "approve_save", !.k = 1,
                               !.listed = under_review_polyps,
                               !.polyps = approved_from(under_review_polyps, cw, 1)]
    /\ UNCHANGED <<db, vector_index, local_cache, sharedVars, schedVars, chanVars, sy, rp, otherVars, budget>>

\* line 136: position of the capsule in the listing (0-based in the source)
position(listed, id) ==
    IF \E i \in 1..Len(listed) : listed[i].id = id
    THEN CHOOSE i \in 1..Len(listed) :
             listed[i].id = id /\ \A j \in 1..(i - 1) : listed[j].id # id
    ELSE 1

\* lines 133-142: the ConsensusMetadata attached on approval
ConsensusMetadata(epoch, listed, cw, id) ==
    [epoch |-> epoch,
     final_score |-> IF position(listed, id) <= Len(cw) THEN cw[position(listed, id)] ELSE Zero,
     hardened |-> FALSE]

\* step 7 (lines 130-147): one iteration of the approval loop; a failed save
\* is logged and the loop goes on
ApproveSave ==
    /\ tide.pc = "approve_save"
    /\ tide.k <= Len(tide.polyps)
    /\ LET polyp == tide.polyps[tide.k]
           cw == Unwrap(tide.result).consensus_weights
           updated == [polyp EXCEPT !.state = "Approved",
                          !.consensus = Some(ConsensusMetadata(tide.epoch, tide.listed, cw, polyp.id))]
       IN \E o \in SaveOutcomes :
            /\ CanFault(o)
            /\ db' = save_polyp(db, updated, o)
            /\ budget' = Faulted(o)
    /\ tide' = [tide EXCEPT !.k = @ + 1]
    /\ UNCHANGED <<vector_index, local_cache, sharedVars, schedVars, chanVars, sy, rp, otherVars>>

\* step 8 (lines 150-155): hand the approved capsules to the hardening pipeline
HandToHardening ==
    /\ tide.pc = "approve_save"
    /\ tide.k > Len(tide.polyps)
    /\ tide' = [tide EXCEPT !.pc = IF tide.polyps # <<>> THEN "harden_store" ELSE "finish",
                            !.k = 1]
    /\ UNCHANGED <<db, vector_index, local_cache, sharedVars, schedVars, chanVars, sy, rp, otherVars, budget>>

(***************************************************************************)
(* hardening_pipeline.rs, HardenedStore and HardeningManager.  Each call   *)
(* of the content-addressed backend answers Ok, answers with an error, or  *)
(* never answers (IpfsClient::new builds its HTTP client without timeout). *)
(***************************************************************************)
BackendOutcomes == {"ok", "err", "hang"}

\* the CID the backend returns for the serialised capsule: a hash of the bytes
cid_of(polyp) == [hash |-> polyp]

\* serde_json::to_vec(polyp) and serde_json::from_slice(&bytes)
to_vec(polyp) == [json |-> polyp]
from_slice(bytes) == bytes.json

\* local_cache.put_bytes(cid_key(cid), value): the entry of the key is replaced
put_cid(cache, cid, value) ==
    [cache EXCEPT !.cid = {e \in @ : e.cid # cid} \cup {[cid |-> cid, value |-> value]}]

\* local_cache.get_bytes(cid_key(cid))
get_cid(cache, cid) ==
    IF \E e \in cache.cid : e.cid = cid
    THEN Some((CHOOSE e \in cache.cid : e.cid = cid).value)
    ELSE None

\* hardened.rs store_hardened lines 68-73: cache the blob, record id -> cid
store_hardened(cache, polyp, cid) ==
    [put_cid(cache, cid, to_vec(polyp)) EXCEPT !.map[polyp.id] = Some(cid)]

\* hardening.rs harden_polyp lines 44-61: the lineage, merkle_root = SHA-256(id || cid)
HardeningLineage(id, cid) == [cid |-> cid, merkle_root |-> <<id, cid>>]

\* harden_approved_polyps lines 48-58: the for loop moves to the next capsule,
\* counting a success or logging a failure
harden_next(t, ok) ==
    [t EXCEPT !.pc = IF t.k + 1 > Len(t.polyps) THEN "finish" ELSE "harden_store",
              !.k = @ + 1, !.cid = None, !.lineage = None,
              !.failed = IF ok THEN @ ELSE @ \cup {t.polyps[t.k].id},
              !.hardened_count = IF ok THEN @ + 1 ELSE @]

\* harden_single_polyp step 1 (lines 71-75): store_hardened
HardenStore ==
    /\ tide.pc = "harden_store"
    /\ LET polyp == tide.polyps[tide.k]
       IN \E o \in BackendOutcomes :
            CASE o = "ok" ->
                   /\ local_cache' = store_hardened(local_cache, polyp, cid_of(polyp))
                   /\ tide' = [tide EXCEPT !.pc = "harden_pin", !.cid = Some(cid_of(polyp))]
              [] o = "err" ->
                   /\ tide' = harden_next(tide, FALSE)
                   /\ UNCHANGED local_cache
              [] o = "hang" ->
                   /\ tide' = [tide EXCEPT !.pc = "blocked"]
                   /\ UNCHANGED local_cache
    /\ UNCHANGED <<db, vector_index, sharedVars, schedVars, chanVars, sy, rp, otherVars, budget>>

\* harden_single_polyp step 2 (lines 77-82): pin and lineage
HardenPin ==
    /\ tide.pc = "harden_pin"
    /\ LET polyp == tide.polyps[tide.k]
       IN \E o \in BackendOutcomes :
            tide' = CASE o = "ok" ->
                           [tide EXCEPT !.pc = "harden_save",
                                 !.lineage = Some(HardeningLineage(polyp.id, Unwrap(tide.cid)))]
                      [] o = "err" -> harden_next(tide, FALSE)
                      [] o = "hang" -> [tide EXCEPT !.pc = "blocked"]
    /\ UNCHANGED <<db, vector_index, local_cache, sharedVars, schedVars, chanVars, sy, rp, otherVars, budget>>

\* harden_single_polyp step 3 (lines 84-91): the capsule it saves
hardened_polyp(polyp, lineage) ==
    [polyp EXCEPT !.state = "Hardened",
                  !.hardening = Some(lineage),
                  !.consensus = IF IsSome(@) THEN Some([Unwrap(@) EXCEPT !.hardened = TRUE]) ELSE @]

\* harden_single_polyp step 4 (lines 93-97): save
HardenSave ==
    /\ tide.pc = "harden_save"
    /\ LET polyp == tide.polyps[tide.k]
       IN \E o \in SaveOutcomes :
            /\ CanFault(o)
            /\ db' = save_polyp(db, hardened_polyp(polyp, Unwrap(tide.lineage)), o)
            /\ budget' = Faulted(o)
            /\ tide' = harden_next(tide, o = "ok")
    /\ UNCHANGED <<vector_index, local_cache, sharedVars, schedVars, chanVars, sy, rp, otherVars>>

\* metagraph.rs MetagraphManager::update
\* a manager that takes every snapshot
MetagraphManager_overwrite(mm, metagraph) ==
    [current |-> Some(metagraph), last_epoch |-> Some(metagraph.epoch)]

MetagraphManager_update(mm, metagraph) ==
    IF IsSome(mm.last_epoch) /\ metagraph.epoch <= Unwrap(mm.last_epoch)
    THEN mm
    ELSE [current |-> Some(metagraph), last_epoch |-> Some(metagraph.epoch)]

\* ChitinError::Consensus(format!("Stale epoch: got {} but last was {}", ..))
StaleEpoch(got, last) ==
    [error |-> "Consensus", message |-> <<"Stale epoch: got", got, "but last was", last>>]
\* Ok(())
Ok == [error |-> "none", message |-> <<>>]

\* MetagraphManager::update: the Result it returns
MetagraphManager_update_result(mm, metagraph) ==
    IF IsSome(mm.last_epoch) /\ metagraph.epoch <= Unwrap(mm.last_epoch)
    THEN StaleEpoch(metagraph.epoch, Unwrap(mm.last_epoch))
    ELSE Ok

\* run_epoch_consensus steps 9-10 (lines 157-187): self-trust of every
\* validator, the metagraph snapshot, Ok(())
BoundaryFinish ==
    /\ tide.pc = "finish"
    /\ trust_matrix' = trust_matrix \cup {<<v, v>> : v \in 1..tide.n_validators}
    /\ metagraph_manager' = MetagraphManager_update(metagraph_manager,
           [epoch |-> tide.epoch, total_hardened_polyps |-> Len(tide.polyps)])
    /\ tide' = IdleTide
    /\ UNCHANGED <<db, vector_index, local_cache, weight_matrix, wm_ids, scoring, bond_matrix,
                   last_consensus_result, schedVars, chanVars, sy, rp, otherVars, budget>>

(***************************************************************************)
(* Peers: peer/receive_polyp and the pull-sync loop.  What a peer sends is *)
(* an input: a copy of the capsule in the state it has on that peer.       *)
(***************************************************************************)
\* the configured peer URLs
Peers == <<"peer_a", "peer_b">>
\* the states in which peers hold their copies
PeerStates == {"Soft", "UnderReview"}

PeerPolyp(id, state, sig) == [Polyp(id, state, None, None) EXCEPT !.signature = sig]

\* peer.rs ReceivePolypResponse; the message names the capsule
ReceivePolypResponse(accepted, duplicate, id) ==
    [accepted |-> accepted, duplicate |-> duplicate, id |-> id]
\* the Err(String) of handle_receive_polyp; the message does not name the capsule
ReceivePolypError == [accepted |-> FALSE, duplicate |-> FALSE, error |-> TRUE]

\* gossip.rs broadcast_polyp: one push task per configured peer
broadcast_polyp(peers, polyp) == {<<peers[i], polyp.id>> : i \in DOMAIN peers}

\* a dispatch that would hand a received capsule to the gossip callback
receive_polyp_rebroadcast(peers, polyp) == broadcast_polyp(peers, polyp)

\* server.rs dispatch of peer/receive_polyp (lines 608-617): the handler gets
\* the store and the index, and the gossip callback is not invoked
receive_polyp_gossip(peers, polyp) == {}

\* a handler that would refuse a capsule whose signature does not verify
signature_enforced(polyp) ==
    IF polyp.signature \in {"invalid", "unverifiable"} THEN "refuse" ELSE "continue"

\* peer.rs handle_receive_polyp lines 121-143: the result of verify_signature
\* is logged and the handler goes on in every case
signature_logged(polyp) == "continue"

\* a handler that would take every capsule as new
dedup_skipped(d, id) == FALSE

\* peer.rs handle_receive_polyp lines 145-150: existing.is_some()
dedup_check(d, id) == IsSome(get_polyp_sync(d, id))

\* peer.rs handle_receive_polyp lines 119-158: the signature is verified and
\* logged, then the dedup check answers a duplicate at once
ReceiveCheck(id, state, sig) ==
    /\ rp.pc = "idle"
    /\ LET polyp == PeerPolyp(id, state, sig)
       IN rp' = IF signature_logged(polyp) # "continue"
                THEN [IdleReceive EXCEPT !.resp = Some(ReceivePolypError)]
                ELSE IF dedup_check(db, id)
                THEN [IdleReceive EXCEPT !.resp = Some(ReceivePolypResponse(FALSE, TRUE, id))]
                ELSE [pc |-> "save", polyp |-> Some(polyp), resp |-> None]
    /\ UNCHANGED <<db, vector_index, local_cache, sharedVars, schedVars, chanVars, tide, sy, otherVars, budget>>

\* peer.rs handle_receive_polyp lines 160-185: save, index the vector, answer
ReceiveSave ==
    /\ rp.pc = "save"
    /\ \E o \in SaveOutcomes :
         /\ CanFault(o)
         /\ db' = save_polyp(db, Unwrap(rp.polyp), o)
         /\ budget' = Faulted(o)
         /\ vector_index' = IF o = "ok" THEN vector_index \cup {Unwrap(rp.polyp).id}
                            ELSE vector_index
         /\ rp' = [IdleReceive EXCEPT !.resp =
                      IF o = "ok" THEN Some(ReceivePolypResponse(TRUE, FALSE, Unwrap(rp.polyp).id))
                      ELSE Some(ReceivePolypError)]
    /\ pushes' = pushes \cup receive_polyp_gossip(Peers, Unwrap(rp.polyp))
    /\ UNCHANGED <<local_cache, sharedVars, schedVars, chanVars, tide, sy, storeVars, updates,
                   submitted, served, callVars>>

\* sync_loop.rs get_local_polyp_ids: the six states it lists
SyncListedStates == {"Draft", "Soft", "UnderReview", "Approved", "Hardened", "Rejected"}

get_local_polyp_ids(d) ==
    {i \in Ids : \E st \in SyncListedStates :
        \E k \in 1..Len(list_polyps_by_state(d, st)) : list_polyps_by_state(d, st)[k].id = i}

\* sync_loop.rs run_sync_loop tick, sync_once lines 47-50: the local id set
\* is taken once, at the start of the round
SyncStart ==
    /\ sy.pc = "idle"
    /\ budget.rounds < MaxSyncRounds
    /\ budget' = [budget EXCEPT !.rounds = @ + 1]
    /\ sy' = [pc |-> "fetch_ids", local_ids |-> get_local_polyp_ids(db),
              peers |-> Peers, missing |-> <<>>]
    /\ UNCHANGED <<db, vector_index, local_cache, sharedVars, schedVars, chanVars, tide, rp, otherVars>>

\* sync_once lines 52-81: the peer's id list (or an error), and the missing ids
SyncFetchIds ==
    /\ sy.pc = "fetch_ids"
    /\ sy.peers # <<>>
    /\ \E remote_ids \in SUBSET Ids :
         LET missing == SortedIds(remote_ids \ sy.local_ids)
         IN sy' = IF missing = <<>>
                  THEN [sy EXCEPT !.peers = Tail(@)]
                  ELSE [sy EXCEPT !.pc = "fetch_polyp", !.missing = missing]
    /\ UNCHANGED <<db, vector_index, local_cache, sharedVars, schedVars, chanVars, tide, rp, otherVars, budget>>

\* the for loop over missing moves on; after the last id, the next peer
sync_next(t) ==
    IF Tail(t.missing) = <<>>
    THEN [t EXCEPT !.pc = "fetch_ids", !.missing = <<>>, !.peers = Tail(@)]
    ELSE [t EXCEPT !.missing = Tail(@)]

\* sync_once lines 88-111: the result of verify_signature is logged and the
\* capsule is accepted in every case
sync_signature_logged(polyp) == "continue"

\* sync_once lines 84-125: fetch one missing capsule, save it and index it
SyncFetchPolyp(state, sig) ==
    /\ sy.pc = "fetch_polyp"
    /\ LET polyp == PeerPolyp(Head(sy.missing), state, sig)
       IN IF sync_signature_logged(polyp) # "continue"
          THEN UNCHANGED <<db, budget, vector_index>>
          ELSE \E o \in SaveOutcomes :
                 /\ CanFault(o)
                 /\ db' = save_polyp(db, polyp, o)
                 /\ budget' = Faulted(o)
                 /\ vector_index' = IF o = "ok" THEN vector_index \cup {Head(sy.missing)}
                                    ELSE vector_index
    /\ sy' = sync_next(sy)
    /\ UNCHANGED <<local_cache, sharedVars, schedVars, chanVars, tide, rp, otherVars>>

\* sync_once lines 126-140: the peer does not have the capsule, or the fetch fails
SyncFetchNone ==
    /\ sy.pc = "fetch_polyp"
    /\ sy' = sync_next(sy)
    /\ UNCHANGED <<db, vector_index, local_cache, sharedVars, schedVars, chanVars, tide, rp, otherVars, budget>>

\* sync_once line 145: Ok(()), back to the interval
SyncRoundDone ==
    /\ sy.pc = "fetch_ids"
    /\ sy.peers = <<>>
    /\ sy' = IdleSync
    /\ UNCHANGED <<db, vector_index, local_cache, sharedVars, schedVars, chanVars, tide, rp, otherVars, budget>>

(***************************************************************************)
(* The RPC server of the daemon: polyp/submit and peer/list_polyp_ids.     *)
(***************************************************************************)
\* handle_submit_polyp_with_identity: the new capsule is signed, stored as
\* Soft and indexed
handle_submit_polyp_with_identity(d, id, outcome) ==
    save_polyp(d, PeerPolyp(id, "Soft", "valid"), outcome)

\* server.rs dispatch of polyp/submit (lines 322-359): the handler creates the
\* capsule under a new id; if it returned Ok, the capsule is read back from
\* the store and handed to the gossip callback
SubmitPolyp(id) ==
    /\ id \notin submitted
    /\ ~IsSome(get_polyp_sync(db, id))
    /\ submitted' = submitted \cup {id}
    /\ \E o \in SaveOutcomes :
         /\ CanFault(o)
         /\ db' = handle_submit_polyp_with_identity(db, id, o)
         /\ budget' = Faulted(o)
         /\ vector_index' = IF o = "ok" THEN vector_index \cup {id} ELSE vector_index
         /\ pushes' = IF o = "ok" /\ IsSome(get_polyp_sync(db', id))
                       THEN pushes \cup broadcast_polyp(Peers, Unwrap(get_polyp_sync(db', id)))
                       ELSE pushes
    /\ UNCHANGED <<local_cache, sharedVars, schedVars, chanVars, tide, sy, rp, storeVars,
                   updates, served, callVars>>

\* the ids of a list of capsules
ids_of(polyps) == [k \in 1..Len(polyps) |-> polyps[k].id]

\* peer.rs handle_list_polyp_ids: the ids of the capsules listed in six states
handle_list_polyp_ids(d) ==
    ids_of(list_polyps_by_state(d, "Draft")) \o ids_of(list_polyps_by_state(d, "Soft"))
        \o ids_of(list_polyps_by_state(d, "UnderReview"))
        \o ids_of(list_polyps_by_state(d, "Approved"))
        \o ids_of(list_polyps_by_state(d, "Hardened"))
        \o ids_of(list_polyps_by_state(d, "Rejected"))

\* a peer calls peer/list_polyp_ids
ListPolypIds ==
    /\ served' = handle_list_polyp_ids(db)
    /\ UNCHANGED <<db, vector_index, local_cache, sharedVars, schedVars, chanVars, tide, sy, rp,
                   storeVars, updates, pushes, submitted, callVars, budget>>

(***************************************************************************)
(* The RPC server of the daemon: dispatch and the response envelope.       *)
(***************************************************************************)
\* the method names of the match in dispatch
DispatchTable ==
    {"polyp/submit", "polyp/get", "polyp/list", "polyp/state", "polyp/provenance",
     "polyp/hardening", "query/search", "query/hybrid", "query/cid", "query/explain",
     "node/info", "node/health", "node/peers", "wallet/create", "wallet/import",
     "wallet/balance", "wallet/transfer", "staking/stake", "staking/unstake", "staking/info",
     "metagraph/get", "metagraph/node", "metagraph/weights", "metagraph/bonds",
     "validation/scores", "validation/epoch", "validation/result", "sync/status",
     "sync/trigger", "admin/config", "admin/logs", "peer/announce", "peer/receive_polyp",
     "peer/list_polyp_ids", "peer/discover"}

\* method names a client may send that the match does not list
UnknownMethods == {"polyp/delete", "validation/score", ""}

\* Result<serde_json::Value, String>
RpcOk(value) == [ok |-> TRUE, value |-> value, err |-> <<>>]
RpcErr(err) == [ok |-> FALSE, value |-> <<>>, err |-> err]

\* dispatch lines 645-656: the envelope built from the Result of the arm
JsonRpcResponse(result) ==
    IF result.ok
    THEN [success |-> TRUE, result |-> Some(result.value), error |-> None]
    ELSE [success |-> FALSE, result |-> None, error |-> Some(result.err)]

\* a match whose last arm hands the request to the node/health handler
dispatch_arm_default(method) == IF method \in DispatchTable THEN method ELSE "node/health"

\* dispatch line 320: the arm of the match that takes the method, "_" the last one
dispatch_arm(method) == IF method \in DispatchTable THEN method ELSE "_"

\* the Result of the arms that touch no shared state: the last arm (line 643)
\* and node/health, which answers with the status of the node
dispatch_result(method) ==
    CASE dispatch_arm(method) = "_" -> RpcErr(<<"Unknown method: ", method>>)
      [] dispatch_arm(method) = "node/health" -> RpcOk([status |-> "healthy"])

\* the request and the response that answered it
Answered(method, params, result) ==
    Some([method |-> method, params |-> params, response |-> JsonRpcResponse(result)])

\* the methods of the requests DispatchStateless takes
StatelessMethods == UnknownMethods \cup {"node/health"}

\* a request for node/health, or one whose method takes the last arm
DispatchStateless(method) ==
    /\ rpc' = Answered(method, <<>>, dispatch_result(method))
    /\ UNCHANGED <<db, vector_index, local_cache, sharedVars, schedVars, chanVars, tide, sy, rp,
                   storeVars, updates, pushes, submitted, served, pureVars, budget>>

(***************************************************************************)
(* HardenedStore (hardened.rs) and the query/cid method that reads it.     *)
(* The store is the local cache and the content-addressed backend; a call  *)
(* of the backend or of the cache answers Ok or with an error.             *)
(***************************************************************************)
\* what a store_hardened call meets: all well, the backend put fails, the
\* put of the blob fails, the put of the id -> cid entry fails
StoreHardenedOutcomes == {"ok", "backend_err", "cache_err", "map_err"}

\* what a get_hardened call meets: all well, the cache read fails, the
\* backend fails, the put of the fetched blob fails
GetHardenedOutcomes == {"ok", "read_err", "backend_err", "cache_err"}

\* ChitinError::Storage
StorageError == RpcErr(<<"Storage">>)

\* hardened.rs store_hardened: the cache it leaves and the Result it returns
HardenedStore_store_hardened(cache, polyp, outcome) ==
    LET cid == cid_of(polyp)
    IN CASE outcome = "ok" ->
              [cache |-> store_hardened(cache, polyp, cid), result |-> RpcOk(cid)]
         [] outcome = "backend_err" -> [cache |-> cache, result |-> StorageError]
         [] outcome = "cache_err" -> [cache |-> cache, result |-> StorageError]
         [] outcome = "map_err" ->
              [cache |-> put_cid(cache, cid, to_vec(polyp)), result |-> StorageError]

\* hardened.rs get_hardened lines 105-113, the path that does not look into
\* the cache: the blob of the cid is fetched from the backend and cached
get_hardened_fallback(cache, cid, outcome) ==
    CASE outcome \in {"read_err", "backend_err"} ->
              [cache |-> cache, result |-> StorageError,
               backend |-> outcome = "backend_err"]
      [] outcome = "cache_err" ->
              [cache |-> cache, result |-> StorageError, backend |-> TRUE]
      [] outcome = "ok" ->
              [cache |-> put_cid(cache, cid, to_vec(cid.hash)),
               result |-> RpcOk(from_slice(to_vec(cid.hash))), backend |-> TRUE]

\* hardened.rs get_hardened: the local cache first; on a miss the blob of the
\* cid from the backend, which is cached.  The cache it leaves, the Result
\* it returns and whether it called the backend.
get_hardened(cache, cid, outcome) ==
    CASE outcome = "read_err" ->
              [cache |-> cache, result |-> StorageError, backend |-> FALSE]
      [] outcome # "read_err" /\ IsSome(get_cid(cache, cid)) ->
              [cache |-> cache, result |-> RpcOk(from_slice(Unwrap(get_cid(cache, cid)))),
               backend |-> FALSE]
      [] OTHER -> get_hardened_fallback(cache, cid, outcome)

\* number of HardenedStore calls in one run
MaxCalls == 4

\* the capsules handed to store_hardened, and the cids asked for
HardenedPolyps == {Polyp(id, "Approved", None, None) : id \in Ids}

\* hardened_store.store_hardened(polyp) returns
StoreHardened(polyp, outcome) ==
    /\ Len(hs_calls) < MaxCalls
    /\ LET r == HardenedStore_store_hardened(local_cache, polyp, outcome)
       IN /\ local_cache' = r.cache
          /\ hs_calls' = Append(hs_calls,
                 [op |-> "store_hardened", cid |-> cid_of(polyp), cached |-> FALSE,
                  backend |-> TRUE, result |-> r.result])
    /\ UNCHANGED <<db, vector_index, sharedVars, schedVars, chanVars, tide, sy, rp, storeVars,
                   updates, pushes, submitted, served, rpc, epochVars, yuma_call, proc, libVars, budget>>

\* GetByCidResponse
GetByCidResponse(polyp, found) == [polyp |-> polyp, found |-> found]

\* query.rs handle_get_by_cid with the hardened store configured
handle_get_by_cid(result) ==
    IF result.ok THEN RpcOk(GetByCidResponse(Some(result.value), TRUE))
    ELSE RpcOk(GetByCidResponse(None, FALSE))

\* a query/cid request: dispatch, handle_get_by_cid, get_hardened
QueryCid(cid, outcome) ==
    /\ Len(hs_calls) < MaxCalls
    /\ LET r == get_hardened(local_cache, cid, outcome)
       IN /\ local_cache' = r.cache
          /\ hs_calls' = Append(hs_calls,
                 [op |-> "get_hardened", cid |-> cid,
                  cached |-> IsSome(get_cid(local_cache, cid)),
                  backend |-> r.backend, result |-> r.result])
          /\ rpc' = Answered("query/cid", [cid |-> cid], handle_get_by_cid(r.result))
    /\ UNCHANGED <<db, vector_index, sharedVars, schedVars, chanVars, tide, sy, rp, storeVars,
                   updates, pushes, submitted, served, epochVars, yuma_call, proc, libVars, budget>>

HardenedNext ==
    \/ \E polyp \in HardenedPolyps, outcome \in StoreHardenedOutcomes :
           StoreHardened(polyp, outcome)
    \/ \E polyp \in HardenedPolyps, outcome \in GetHardenedOutcomes :
           QueryCid(cid_of(polyp), outcome)

(***************************************************************************)
(* The RPC server of the daemon: validation/scores.                        *)
(***************************************************************************)
\* the coral_uid of the requests: the first column, and one past the last
ScoreColumns == {0, NumIds}

\* weights.rs WeightMatrix::set
WeightMatrix_set(weights, v, c, w) == [weights EXCEPT ![v][c] = w]

\* SubmitScoresRequest with one weight entry
SubmitScoresRequest(epoch, coral_uid, weight) ==
    [epoch |-> epoch, coral_uid |-> coral_uid, weight |-> weight]

\* SubmitScoresResponse
SubmitScoresResponse(accepted, message) == [accepted |-> accepted, message |-> message]

\* a phase check that lets every phase pass
phase_any(phase) == TRUE

\* handle_submit_scores line 87: the phases in which scores are taken
phase_accepts(phase) == ~(phase # "Scoring" /\ phase # "Committing")

\* validation.rs handle_submit_scores: refused without epoch manager, unless
\* the request's epoch is the current one, and unless the phase is Scoring or
\* Committing; then the weight is set in row 0 if the column exists.  The
\* response and the weights it leaves.
handle_submit_scores(request, weights, em) ==
    LET columns == IF Len(weights) > 0 THEN Len(weights[1]) ELSE 0
    IN CASE ~IsSome(em) ->
              [response |-> SubmitScoresResponse(FALSE, <<"Phase 1 stub">>),
               weights |-> weights]
         [] IsSome(em) /\ request.epoch # Unwrap(em).current_epoch ->
              [response |-> SubmitScoresResponse(FALSE,
                   <<"Epoch mismatch", request.epoch, Unwrap(em).current_epoch>>),
               weights |-> weights]
         [] IsSome(em) /\ request.epoch = Unwrap(em).current_epoch
                /\ ~phase_accepts(Unwrap(em).phase) ->
              [response |-> SubmitScoresResponse(FALSE,
                   <<"Cannot submit scores during", Unwrap(em).phase>>),
               weights |-> weights]
         [] OTHER ->
              [response |-> SubmitScoresResponse(TRUE, <<"Accepted", 1, request.epoch>>),
               weights |-> IF request.coral_uid < columns
                           THEN WeightMatrix_set(weights, 1, request.coral_uid + 1,
                                                 request.weight)
                           ELSE weights]

\* a validation/scores request through dispatch to a server built with (em =
\* Some) or without (em = None) epoch manager
DispatchScores(request, em) ==
    /\ LET r == handle_submit_scores(request, weight_matrix, em)
       IN /\ weight_matrix' = r.weights
          /\ rpc' = Answered("validation/scores", request, RpcOk(r.response))
    /\ UNCHANGED <<db, vector_index, local_cache, wm_ids, scoring, bond_matrix,
                   last_consensus_result, trust_matrix, metagraph_manager, schedVars, chanVars,
                   tide, sy, rp, storeVars, updates, pushes, submitted, served, pureVars, budget>>

\* validation/scores on the RPC server of the daemon, which main.rs builds
\* with_epoch_manager and with_weight_matrix
SubmitScores(epoch, coral_uid, weight) ==
    DispatchScores(SubmitScoresRequest(epoch, coral_uid, weight), Some(epoch_manager))

\* validation/scores on a ChitinRpcServer built without with_epoch_manager
SubmitScoresUnconfigured(epoch, coral_uid, weight) ==
    DispatchScores(SubmitScoresRequest(epoch, coral_uid, weight), None)

Init ==
    /\ db = EmptyDb
    /\ DaemonInit
    /\ StoreIdle
    /\ UnitIdle

TideNext ==
    \/ TideRecv
    \/ TideRecvLagged
    \/ ScoreListSoft
    \/ ScoreListUnderReview
    \/ ScoreSave
    \/ ScoreReturn
    \/ ReadWeights
    \/ ListUnderReview
    \/ ApproveSave
    \/ HandToHardening
    \/ HardenStore
    \/ HardenPin
    \/ HardenSave
    \/ BoundaryFinish

Next ==
    \/ SchedulerAdvanceBlock
    \/ TideNext
    \/ \E id \in Ids, st \in PeerStates : ReceiveCheck(id, st, "none")
    \/ ReceiveSave
    \/ SyncStart
    \/ SyncFetchIds
    \/ \E st \in PeerStates : SyncFetchPolyp(st, "none")
    \/ SyncFetchNone
    \/ SyncRoundDone

Spec == Init /\ [][Next]_vars

(***************************************************************************)
(* LiveSpec: a validator without peers (no pull-sync, no receive_polyp),   *)
(* started on a store that already holds Soft capsules.  The executor      *)
(* keeps polling the validator loop, so a step of it that stays enabled is *)
(* eventually taken.                                                       *)
(***************************************************************************)
RECURSIVE stored_soft(_)
\* the store after the capsules of S were saved in state Soft
stored_soft(S) ==
    IF S = {} THEN EmptyDb
    ELSE LET id == CHOOSE i \in S : \A j \in S : i >= j
         IN save_polyp_sync(stored_soft(S \ {id}), Polyp(id, "Soft", None, None))

NodeInit ==
    /\ \E S \in SUBSET Ids : db = stored_soft(S)
    /\ DaemonInit
    /\ StoreIdle
    /\ UnitIdle

LiveNext ==
    \/ SchedulerAdvanceBlock
    \/ TideNext

\* each step of the validator loop and of the handler it awaits
TideFair ==
    /\ WF_vars(TideRecv)
    /\ WF_vars(TideRecvLagged)
    /\ WF_vars(ScoreListSoft)
    /\ WF_vars(ScoreListUnderReview)
    /\ WF_vars(ScoreSave)
    /\ WF_vars(ScoreReturn)
    /\ WF_vars(ReadWeights)
    /\ WF_vars(ListUnderReview)
    /\ WF_vars(ApproveSave)
    /\ WF_vars(HandToHardening)
    /\ WF_vars(HardenStore)
    /\ WF_vars(HardenPin)
    /\ WF_vars(HardenSave)
    /\ WF_vars(BoundaryFinish)

LiveSpec == NodeInit /\ [][LiveNext]_vars /\ TideFair

(***************************************************************************)
(* ConfigSpec: the validator of LiveSpec under any configured epoch        *)
(* length.  main.rs hands daemon_config.blocks_per_epoch to the            *)
(* EpochManager and to the scheduler as it is; with short epochs a run     *)
(* passes several epoch boundaries.                                        *)
(***************************************************************************)
\* largest blocks_per_epoch configured in ConfigSpec
MaxEpochLength == 2

ConfigInit ==
    /\ \E S \in SUBSET Ids : db = stored_soft(S)
    /\ \E blocks_per_epoch \in 0..MaxEpochLength : DaemonConfigured(blocks_per_epoch)
    /\ StoreIdle
    /\ UnitIdle

\* scheduler.rs advance_block lines 83-89 with blocks_per_epoch = 0: the
\* block counter is incremented, then `block / self.blocks_per_epoch` in
\* EpochManager::advance_block panics and the scheduler task ends
SchedulerPanic ==
    /\ current_block < MaxBlock
    /\ epoch_manager.blocks_per_epoch = 0
    /\ proc.scheduler = "running"
    /\ current_block' = current_block + 1
    /\ proc' = [proc EXCEPT !.scheduler = "panicked"]
    /\ UNCHANGED <<db, vector_index, local_cache, sharedVars, epoch_manager, chanVars, tide, sy,
                   rp, storeVars, updates, pushes, submitted, served, rpc, epochVars, hs_calls,
                   yuma_call, libVars, budget>>

ConfigNext ==
    \/ SchedulerAdvanceBlock
    \/ SchedulerPanic
    \/ TideNext

ConfigSpec == ConfigInit /\ [][ConfigNext]_vars

(***************************************************************************)
(* NodeSpec: a validator that receives capsules from peers through         *)
(* peer/receive_polyp but runs no pull-sync loop (main.rs starts the loop  *)
(* only when peers are configured), started on a store that may already    *)
(* hold Soft capsules.                                                     *)
(***************************************************************************)
NodeNext ==
    \/ SchedulerAdvanceBlock
    \/ TideNext
    \/ \E id \in Ids, st \in PeerStates : ReceiveCheck(id, st, "none")
    \/ ReceiveSave

NodeSpec == NodeInit /\ [][NodeNext]_vars

(***************************************************************************)
(* RpcSpec: NodeSpec with the validation/scores method of the RPC server.  *)
(***************************************************************************)
RpcNext ==
    \/ NodeNext
    \/ \E epoch \in 0..1, coral_uid \in ScoreColumns :
           SubmitScores(epoch, coral_uid, Rat(1, 1))

RpcSpec == NodeInit /\ [][RpcNext]_vars

(***************************************************************************)
(* ReceiveSpec: peer/receive_polyp calls on a node without validator; the  *)
(* peers send capsules in either state, with and without signature,        *)
(* verifiable or not.                                                      *)
(***************************************************************************)
ReceiveNext ==
    \/ \E id \in Ids, st \in PeerStates, sig \in Signatures : ReceiveCheck(id, st, sig)
    \/ ReceiveSave

ReceiveSpec == Init /\ [][ReceiveNext]_vars

(***************************************************************************)
(* PeerSpec: the two ways a capsule arrives from a peer, peer/receive_polyp *)
(* and pull-sync, on a node without validator; the peers send capsules as  *)
(* submitted (Soft), with and without signature, verifiable or not.        *)
(***************************************************************************)
\* the state of a capsule that no validator has seen yet
SubmittedStates == {"Soft"}

PeerNext ==
    \/ \E id \in Ids, st \in SubmittedStates, sig \in Signatures : ReceiveCheck(id, st, sig)
    \/ ReceiveSave
    \/ SyncStart
    \/ SyncFetchIds
    \/ \E st \in SubmittedStates, sig \in Signatures : SyncFetchPolyp(st, sig)
    \/ SyncFetchNone
    \/ SyncRoundDone

PeerSpec == Init /\ [][PeerNext]_vars

(***************************************************************************)
(* GossipSpec: a node with configured peers and no validator: capsules are *)
(* submitted locally, pushed by peers and pulled from peers.               *)
(***************************************************************************)
GossipNext ==
    \/ \E id \in Ids : SubmitPolyp(id)
    \/ \E id \in Ids, st \in SubmittedStates : ReceiveCheck(id, st, "valid")
    \/ ReceiveSave
    \/ SyncStart
    \/ SyncFetchIds
    \/ \E st \in SubmittedStates : SyncFetchPolyp(st, "valid")
    \/ SyncFetchNone
    \/ SyncRoundDone

GossipSpec == Init /\ [][GossipNext]_vars

(***************************************************************************)
(* IdsSpec: the id sets a node computes for reconciliation.  Peers hold    *)
(* capsules in the state Molted too.                                       *)
(***************************************************************************)
\* the states in which the peers of IdsSpec hold their copies
IdsPeerStates == {"Soft", "Molted"}

IdsNext ==
    \/ \E id \in Ids, st \in IdsPeerStates : ReceiveCheck(id, st, "none")
    \/ ReceiveSave
    \/ SyncStart
    \/ SyncFetchIds
    \/ \E st \in IdsPeerStates : SyncFetchPolyp(st, "none")
    \/ SyncFetchNone
    \/ SyncRoundDone
    \/ ListPolypIds

IdsSpec == Init /\ [][IdsNext]_vars

(***************************************************************************)
(* LoopSpec: the validator loop with its shutdown signal.                  *)
(***************************************************************************)
LoopNext ==
    \/ SchedulerAdvanceBlock
    \/ TideNext
    \/ TideCtrlC

LoopSpec == NodeInit /\ [][LoopNext]_vars

(***************************************************************************)
(* ShutdownSpec: the process of main.rs in tide and in hybrid mode, the    *)
(* OS signal (ctrl_c) and the tasks that watch it.  A task that is in its  *)
(* select! when the signal has been delivered can take the ctrl_c arm.     *)
(***************************************************************************)
NodeTypes == {"tide", "hybrid"}

ShutdownInit ==
    /\ \E S \in SUBSET Ids : db = stored_soft(S)
    /\ DaemonInit
    /\ StoreIdle
    /\ EpochIdle
    /\ CallsIdle
    /\ \E node_type \in NodeTypes : proc = Process(node_type)

\* the runtime of main is alive: its tasks are polled
Alive == proc.main = "running"

\* the steps that leave the validator loop and the daemon state alone
ProcessStep ==
    UNCHANGED <<db, vector_index, local_cache, sharedVars, schedVars, chanVars, tide, sy, rp,
                storeVars, updates, pushes, submitted, served, rpc, epochVars, hs_calls,
                yuma_call, libVars, budget>>

\* the OS delivers the shutdown signal to the process; in_flight is history:
\* the epoch of the Scoring handler that is running when it arrives
Signal ==
    /\ Alive
    /\ ~proc.signal
    /\ proc' = [proc EXCEPT !.signal = TRUE, !.in_flight = scoring.started \ scoring.done]
    /\ ProcessStep

\* scheduler.rs EpochScheduler::run lines 56-60: the ctrl_c arm breaks
SchedulerCtrlC ==
    /\ Alive
    /\ proc.signal
    /\ proc.scheduler = "running"
    /\ proc' = [proc EXCEPT !.scheduler = "exited"]
    /\ ProcessStep

\* tide.rs TideNode::start lines 63-66, once the signal has been delivered
TideShutdown ==
    /\ Alive
    /\ proc.signal
    /\ TideCtrlC

\* a future that is dropped where it is suspended: the validator loop, with
\* the handler it awaits
dropped(t) == IF t.pc = "stopped" THEN t ELSE [t EXCEPT !.pc = "dropped"]

\* main.rs lines 361-365: main returns, the runtime is dropped and with it
\* every spawned task
runtime_dropped(p) ==
    [p EXCEPT !.main = "returned", !.scheduler = "exited",
              !.coral = IF @ = "none" THEN @ ELSE "exited",
              !.sync = IF @ = "none" THEN @ ELSE "exited"]

\* coral.rs CoralNode::start lines 66-70: the ctrl_c arm breaks and
\* coral.start() returns; main.rs lines 342-353: select! returns with it and
\* drops tide.start()
CoralCtrlC ==
    /\ Alive
    /\ proc.signal
    /\ proc.coral = "running"
    /\ tide' = dropped(tide)
    /\ proc' = runtime_dropped(proc)
    /\ UNCHANGED <<db, vector_index, local_cache, sharedVars, schedVars, chanVars, sy, rp,
                   storeVars, updates, pushes, submitted, served, rpc, epochVars, hs_calls,
                   yuma_call, libVars, budget>>

\* main.rs lines 252 and 342-353: node.start() / tide.start() has returned
MainReturn ==
    /\ Alive
    /\ tide.pc = "stopped"
    /\ proc' = runtime_dropped(proc)
    /\ ProcessStep

ShutdownNext ==
    \/ Alive /\ proc.scheduler = "running" /\ SchedulerAdvanceBlock
    \/ Alive /\ TideNext
    \/ Signal
    \/ SchedulerCtrlC
    \/ CoralCtrlC
    \/ TideShutdown
    \/ MainReturn

ShutdownSpec == ShutdownInit /\ [][ShutdownNext]_vars

(***************************************************************************)
(* MetaSpec: a MetagraphManager on its own, given snapshots of any epoch   *)
(* in any order.                                                           *)
(***************************************************************************)
\* largest epoch of a snapshot handed to update
MaxEpochInput == 6
\* number of update calls in one run
MaxUpdates == 4

\* a update(metagraph) call on the manager, its Result recorded
MetaUpdate(e) ==
    /\ Len(updates) < MaxUpdates
    /\ LET metagraph == [epoch |-> e, total_hardened_polyps |-> Len(updates)]
       IN /\ metagraph_manager' = MetagraphManager_update(metagraph_manager, metagraph)
          /\ updates' = Append(updates,
                 [epoch |-> e,
                  result |-> MetagraphManager_update_result(metagraph_manager, metagraph)])
    /\ UNCHANGED <<db, vector_index, local_cache, weight_matrix, wm_ids, scoring, bond_matrix,
                   last_consensus_result, trust_matrix, schedVars, chanVars, tide, sy, rp,
                   storeVars, budget, pushes, submitted, served, callVars>>

MetaNext == \E e \in 0..MaxEpochInput : MetaUpdate(e)

MetaSpec == Init /\ [][MetaNext]_vars

(***************************************************************************)
(* ScoresSpec: the validator of LiveSpec with an RPC server that takes     *)
(* validation/scores; a second server, built without epoch manager, shares *)
(* the weight matrix.                                                      *)
(***************************************************************************)
ScoresNext ==
    \/ LiveNext
    \/ \E epoch \in 0..1, coral_uid \in ScoreColumns :
           SubmitScores(epoch, coral_uid, Rat(1, 1))
    \/ \E epoch \in 0..1 : SubmitScoresUnconfigured(epoch, 0, Rat(1, 1))

ScoresSpec == NodeInit /\ [][ScoresNext]_vars

(***************************************************************************)
(* DispatchSpec: the validator of LiveSpec with an RPC server that takes   *)
(* node/health and requests for methods it does not know.                  *)
(***************************************************************************)
DispatchNext ==
    \/ LiveNext
    \/ \E method \in StatelessMethods : DispatchStateless(method)

DispatchSpec == NodeInit /\ [][DispatchNext]_vars

(***************************************************************************)
(* HardenedSpec: a HardenedStore on its own, behind the query/cid method   *)
(* of an RPC server.                                                       *)
(***************************************************************************)
HardenedSpec == Init /\ [][HardenedNext]_vars

(***************************************************************************)
(* EpochSpec: an EpochManager on its own, of any epoch length, given block *)
(* heights in any order.                                                   *)
(***************************************************************************)
\* largest blocks_per_epoch of the manager
MaxBlocksPerEpoch == 40
\* largest block height handed to advance_block
MaxHeight == 60

EpochInit ==
    /\ db = EmptyDb
    /\ DaemonInit
    /\ StoreIdle
    /\ CallsIdle
    /\ proc = Process("tide")
    /\ \E n \in 1..MaxBlocksPerEpoch : manager = EpochManager(n)
    /\ height = 0

\* em.advance_block(block)
EpochAdvance(block) ==
    /\ manager' = EpochManager_advance_block(manager, block)
    /\ height' = block
    /\ UNCHANGED <<db, vector_index, local_cache, sharedVars, schedVars, chanVars, tide, sy, rp,
                   storeVars, updates, pushes, submitted, served, rpc, hs_calls, yuma_call, proc, libVars,
                   budget>>

EpochNext == \E block \in 0..MaxHeight : EpochAdvance(block)

EpochSpec == EpochInit /\ [][EpochNext]_vars

(***************************************************************************)
(* YumaSpec: one call of yuma_semantic_consensus on arguments of any       *)
(* shape: stakes that may all be zero, weight matrices with missing or     *)
(* short rows, previous bonds of another shape.                            *)
(***************************************************************************)
\* most validators of a call
MaxValidators == 3
\* largest stake of a validator
MaxStake == 4

StakeVectors ==
    UNION {[1..n -> 0..MaxStake] : n \in 0..MaxValidators}

\* the rows a validator may have submitted: raw weights over two corals,
\* and rows that are too short
WeightRows ==
    {<<One, Zero>>, <<One, One>>, <<One, Rat(3, 1)>>, <<One>>, <<>>}

WeightMatrices ==
    UNION {[1..n -> WeightRows] : n \in 0..MaxValidators}

\* previous bonds: none, and a ragged matrix of two rows
PrevBonds == {<<>>, <<<<Rat(1, 2)>>, <<Rat(1, 2), Rat(1, 2)>>>>}

YumaCall(stakes, weights, prev_bonds) ==
    [stakes |-> stakes, weights |-> weights, prev_bonds |-> prev_bonds, result |-> None]

\* yuma.rs test_stake_weighting: the arguments of the documented example
StakeWeighting ==
    YumaCall(<<900, 100>>,
             <<<<f64(Rat(8, 10)), f64(Rat(2, 10))>>, <<f64(Rat(2, 10)), f64(Rat(8, 10))>>>>,
             <<<<Zero, Zero>>, <<Zero, Zero>>>>)

YumaInit ==
    /\ db = EmptyDb
    /\ DaemonInit
    /\ StoreIdle
    /\ EpochIdle
    /\ hs_calls = <<>>
    /\ vbf = None
    /\ state_machine = None
    /\ receivers = <<>>
    /\ review = None
    /\ proc = Process("tide")
    /\ \/ \E stakes \in StakeVectors, weights \in WeightMatrices, prev_bonds \in PrevBonds :
              yuma_call = Some(YumaCall(stakes, weights, prev_bonds))
       \/ yuma_call = Some(StakeWeighting)

\* the call: the result is recorded, a panic as a result that is marked so
YumaConsensus ==
    /\ IsSome(yuma_call)
    /\ Unwrap(yuma_call).result = None
    /\ LET call == Unwrap(yuma_call)
       IN yuma_call' = Some([call EXCEPT !.result =
              Some(yuma_semantic_consensus(call.stakes, call.weights, call.prev_bonds,
                                           KAPPA, BOND_PENALTY, ALPHA))])
    /\ UNCHANGED <<db, vector_index, local_cache, sharedVars, schedVars, chanVars, tide, sy, rp,
                   storeVars, updates, pushes, submitted, served, rpc, epochVars, hs_calls,
                   proc, libVars, budget>>

YumaNext == YumaConsensus

YumaSpec == YumaInit /\ [][YumaNext]_vars

(***************************************************************************)
(* VbfSpec: a VectorBloomFilter (chitin-sync/src/vbf.rs) that is filled,   *)
(* written with to_bytes and read back with from_bytes.  The filter is     *)
(* the bloomfilter crate's Bloom: a bit vector, its number of bits, the    *)
(* number of hash functions and two SipHash keys.  A u64 is written as 8   *)
(* bytes and a u32 as 4, as in the code; the values stay small.            *)
(***************************************************************************)
\* largest capacity a filter is created with
MaxCapacity == 2
\* number of distinct Uuids offered to a filter
MaxItems == 3

Uuids == 1..MaxItems

\* u64::to_le_bytes / u32::to_le_bytes: the n bytes of v, lowest first
RECURSIVE to_le_bytes(_, _)
to_le_bytes(v, n) ==
    IF n = 0 THEN <<>> ELSE <<v % 256>> \o to_le_bytes(v \div 256, n - 1)

\* u64::from_le_bytes / u32::from_le_bytes
RECURSIVE from_le_bytes(_)
from_le_bytes(bytes) ==
    IF bytes = <<>> THEN 0
    ELSE Head(bytes) + (IF from_le_bytes(Tail(bytes)) = 0 THEN 0
                        ELSE 256 * from_le_bytes(Tail(bytes)))

\* BitVec::to_bytes: eight bits a byte, the first bit the highest; a last
\* byte that is not full is padded with zero bits
BitVec_to_bytes(bits) ==
    [b \in 1..((Len(bits) + 7) \div 8) |->
        LET bit(j) == IF 8 * (b - 1) + j <= Len(bits) /\ bits[8 * (b - 1) + j] THEN 1 ELSE 0
        IN 128 * bit(1) + 64 * bit(2) + 32 * bit(3) + 16 * bit(4)
           + 8 * bit(5) + 4 * bit(6) + 2 * bit(7) + bit(8)]

\* a decoding that takes the lowest bit of a byte first
BitVec_from_bytes_lsb(bytes) ==
    [i \in 1..(8 * Len(bytes)) |->
        (bytes[(i - 1) \div 8 + 1] \div (2 ^ ((i - 1) % 8))) % 2 = 1]

\* BitVec::from_bytes: the highest bit of a byte first
BitVec_from_bytes(bytes) ==
    [i \in 1..(8 * Len(bytes)) |->
        (bytes[(i - 1) \div 8 + 1] \div (2 ^ (7 - ((i - 1) % 8)))) % 2 = 1]

\* the keys the crate draws at random for its two SipHash instances
SipKeys == {<<<<1, 2>>, <<3, 4>>>>, <<<<300, 7>>, <<65536, 70000>>>>}

\* SipHasher13 keyed with key over the 16 bytes of the Uuid: here a fixed
\* function of the key and the id
sip_hash(key, item) == 31 * item + 7 * key[1] + 13 * key[2] + 5

\* Bloom::bloom_hash: the first two hashes are the keyed ones, the others
\* are combined from them
bloom_hash(sip_keys, item, k_i) ==
    IF k_i < 2 THEN sip_hash(sip_keys[k_i + 1], item)
    ELSE sip_hash(sip_keys[1], item) + k_i * sip_hash(sip_keys[2], item)

Bloom(bit_vec, bitmap_bits, k_num, sip_keys) ==
    [bit_vec |-> bit_vec, bitmap_bits |-> bitmap_bits, k_num |-> k_num, sip_keys |-> sip_keys]

\* the bit offsets of an item; none can be computed when bitmap_bits is 0
bit_offsets(bloom, item) ==
    {bloom_hash(bloom.sip_keys, item, k_i) % bloom.bitmap_bits : k_i \in 0..(bloom.k_num - 1)}

\* the % of bloom_hash and the indexing of the bit vector succeed
offsets_in_bounds(bloom, item) ==
    /\ bloom.bitmap_bits > 0
    /\ \A o \in bit_offsets(bloom, item) : o < Len(bloom.bit_vec)

\* Bloom::new_for_fp_rate(capacity, 0.01): ceil(capacity * 1.19814) bytes
\* and ceil(bits / capacity * ln 2) hash functions
Bloom_new_for_fp_rate(capacity, sip_keys) ==
    LET bitmap_size == (capacity * 119814 + 99999) \div 100000
        bitmap_bits == 8 * bitmap_size
        k_num == (bitmap_bits * 693147 + capacity * 1000000 - 1) \div (capacity * 1000000)
    IN Bloom([i \in 1..bitmap_bits |-> FALSE], bitmap_bits, k_num, sip_keys)

\* VectorBloomFilter::new
VectorBloomFilter_new(capacity, sip_keys) ==
    [inner |-> Bloom_new_for_fp_rate(capacity, sip_keys)]

\* VectorBloomFilter::insert, where it does not panic
insert(f, id) ==
    [inner |-> [f.inner EXCEPT !.bit_vec =
        [i \in 1..Len(f.inner.bit_vec) |->
            f.inner.bit_vec[i] \/ (i - 1) \in bit_offsets(f.inner, id)]]]

\* VectorBloomFilter::contains, where it does not panic
contains(f, id) ==
    \A o \in bit_offsets(f.inner, id) : f.inner.bit_vec[o + 1]

HEADER_SIZE == 44

\* VectorBloomFilter::to_bytes
to_bytes(f) ==
    to_le_bytes(f.inner.bitmap_bits, 8)
    \o to_le_bytes(f.inner.k_num, 4)
    \o to_le_bytes(f.inner.sip_keys[1][1], 8)
    \o to_le_bytes(f.inner.sip_keys[1][2], 8)
    \o to_le_bytes(f.inner.sip_keys[2][1], 8)
    \o to_le_bytes(f.inner.sip_keys[2][2], 8)
    \o BitVec_to_bytes(f.inner.bit_vec)

\* VectorBloomFilter::from_bytes
from_bytes(data) ==
    IF Len(data) < HEADER_SIZE
    THEN [ok |-> FALSE, err |-> "Serialization"]
    ELSE LET bitmap_bits == from_le_bytes(SubSeq(data, 1, 8))
             k_num == from_le_bytes(SubSeq(data, 9, 12))
             sip_keys == <<<<from_le_bytes(SubSeq(data, 13, 20)),
                             from_le_bytes(SubSeq(data, 21, 28))>>,
                           <<from_le_bytes(SubSeq(data, 29, 36)),
                             from_le_bytes(SubSeq(data, 37, 44))>>>>
             bitmap_bytes == SubSeq(data, HEADER_SIZE + 1, Len(data))
         IN [ok |-> TRUE,
             value |-> [inner |-> Bloom(BitVec_from_bytes(bitmap_bytes), bitmap_bits, k_num,
                                        sip_keys)]]

\* what a peer may send: headers that announce no bit, fewer or more bits
\* than the bitmap that follows carries, and data shorter than a header
PeerData ==
    {to_le_bytes(bits, 8) \o to_le_bytes(2, 4) \o to_le_bytes(0, 32) \o bitmap :
        bits \in {0, 5, 8, 16}, bitmap \in {<<>>, <<0>>, <<129>>}}
    \cup {to_le_bytes(8, 8)}

\* the filters a node can hold: made with new, or received from a peer
Filters ==
    {VectorBloomFilter_new(capacity, sip_keys) :
        capacity \in 1..MaxCapacity, sip_keys \in SipKeys}
    \cup {from_bytes(data).value : data \in {d \in PeerData : from_bytes(d).ok}}

VbfInit ==
    /\ db = EmptyDb
    /\ DaemonInit
    /\ StoreIdle
    /\ EpochIdle
    /\ hs_calls = <<>>
    /\ yuma_call = None
    /\ state_machine = None
    /\ receivers = <<>>
    /\ review = None
    /\ proc = Process("tide")
    /\ \E f \in Filters :
          vbf = Some([filter |-> f, inserted |-> {}, panicked |-> FALSE,
                      bytes |-> None, restored |-> None])

VbfStep ==
    UNCHANGED <<db, vector_index, local_cache, sharedVars, schedVars, chanVars, tide, sy, rp,
                storeVars, updates, pushes, submitted, served, rpc, epochVars, hs_calls,
                yuma_call, proc, state_machine, receivers, review,
                budget>>

\* vbf.insert(&id): the call panics on a filter whose header does not fit
\* its bitmap
VbfInsert(id) ==
    /\ IsSome(vbf)
    /\ ~Unwrap(vbf).panicked
    /\ LET v == Unwrap(vbf)
       IN vbf' = Some(IF offsets_in_bounds(v.filter.inner, id)
                      THEN [v EXCEPT !.filter = insert(v.filter, id),
                                     !.inserted = v.inserted \cup {id},
                                     !.bytes = None, !.restored = None]
                      ELSE [v EXCEPT !.panicked = TRUE])
    /\ VbfStep

\* let bytes = vbf.to_bytes()
VbfToBytes ==
    /\ IsSome(vbf)
    /\ ~Unwrap(vbf).panicked
    /\ Unwrap(vbf).bytes = None
    /\ vbf' = Some([Unwrap(vbf) EXCEPT !.bytes = Some(to_bytes(Unwrap(vbf).filter))])
    /\ VbfStep

\* VectorBloomFilter::from_bytes(&bytes)
VbfFromBytes ==
    /\ IsSome(vbf)
    /\ IsSome(Unwrap(vbf).bytes)
    /\ Unwrap(vbf).restored = None
    /\ vbf' = Some([Unwrap(vbf) EXCEPT !.restored = Some(from_bytes(Unwrap(Unwrap(vbf).bytes)))])
    /\ VbfStep

VbfNext ==
    \/ \E id \in Uuids : VbfInsert(id)
    \/ VbfToBytes
    \/ VbfFromBytes

VbfSpec == VbfInit /\ [][VbfNext]_vars

(***************************************************************************)
(* RaceSpec: peer/receive_polyp requests that the RPC server handles at    *)
(* the same time.  The server runs every request as a task of its own on   *)
(* the multi-threaded runtime, so the store calls of two handlers          *)
(* interleave; each store call is atomic.                                  *)
(***************************************************************************)
\* number of peer/receive_polyp requests in flight at once
MaxHandlers == 2

Handlers == 1..MaxHandlers

RaceInit ==
    /\ db = EmptyDb
    /\ DaemonInit
    /\ StoreIdle
    /\ EpochIdle
    /\ hs_calls = <<>>
    /\ yuma_call = None
    /\ vbf = None
    /\ state_machine = None
    /\ proc = Process("tide")
    /\ receivers = [h \in Handlers |-> IdleReceive]
    /\ review = None

RaceStep ==
    UNCHANGED <<local_cache, sharedVars, schedVars, chanVars, tide, sy, rp, storeVars, updates,
                pushes, submitted, served, rpc, epochVars, hs_calls, yuma_call, proc, vbf,
                state_machine, review>>

\* peer.rs handle_receive_polyp lines 119-158 in handler h: a request
\* arrives, its signature is logged, the dedup check reads the store
HandlerCheck(h, id, state, sig) ==
    /\ receivers[h].pc = "idle"
    /\ receivers[h].resp = None
    /\ LET polyp == PeerPolyp(id, state, sig)
       IN receivers' = [receivers EXCEPT ![h] =
              IF signature_logged(polyp) # "continue"
              THEN [IdleReceive EXCEPT !.resp = Some(ReceivePolypError)]
              ELSE IF dedup_check(db, id)
              THEN [IdleReceive EXCEPT !.resp = Some(ReceivePolypResponse(FALSE, TRUE, id))]
              ELSE [pc |-> "save", polyp |-> Some(polyp), resp |-> None]]
    /\ UNCHANGED <<db, vector_index, budget>>
    /\ RaceStep

\* peer.rs handle_receive_polyp lines 160-185 in handler h: save, index the
\* vector, answer
HandlerSave(h) ==
    /\ receivers[h].pc = "save"
    /\ \E o \in SaveOutcomes :
         /\ CanFault(o)
         /\ db' = save_polyp(db, Unwrap(receivers[h].polyp), o)
         /\ budget' = Faulted(o)
         /\ vector_index' = IF o = "ok" THEN vector_index \cup {Unwrap(receivers[h].polyp).id}
                            ELSE vector_index
         /\ receivers' = [receivers EXCEPT ![h] = [IdleReceive EXCEPT !.resp =
                IF o = "ok"
                THEN Some(ReceivePolypResponse(TRUE, FALSE, Unwrap(receivers[h].polyp).id))
                ELSE Some(ReceivePolypError)]]
    /\ RaceStep

RaceNext ==
    \/ \E h \in Handlers, id \in Ids, st \in PeerStates : HandlerCheck(h, id, st, "none")
    \/ \E h \in Handlers : HandlerSave(h)

RaceSpec == RaceInit /\ [][RaceNext]_vars

(***************************************************************************)
(* ReviewSpec: the capsules of a validator that wait for a decision, over  *)
(* any number of epochs.  The state is the position of the block in its    *)
(* epoch, the ids stored Soft, UnderReview and Approved, and the weight    *)
(* matrix; the epoch number is left out, since no step of the two          *)
(* handlers depends on it.  The handlers run to completion (they are       *)
(* awaited by the validator loop) and no storage call fails.               *)
(***************************************************************************)
\* number of capsules submitted to the validator of ReviewSpec
MaxReview == 7

ReviewIds == 1..MaxReview

\* list_polyps_by_state: the capsules of a state in key order
review_list(S, state) == [k \in 1..Cardinality(S) |-> Polyp(SortedIds(S)[k], state, None, None)]

\* the stores a Scoring handler of ReviewSpec can meet: no capsule is
\* submitted after the start, so the capsules are all Soft (first epoch) or
\* all UnderReview (later epochs)
ReviewPools ==
    {<<S, {}>> : S \in SUBSET ReviewIds} \cup {<<{}, U>> : U \in SUBSET ReviewIds}

\* tide.rs run_scoring_pipeline lines 111-143 for each of these stores: the
\* Soft and then the UnderReview capsules are scored into a new 1 x n
\* matrix (<<>>: nothing to score, the matrix is left as it is)
review_scores ==
    [pool \in ReviewPools |->
        LET all_polyps == review_list(pool[1], "Soft") \o review_list(pool[2], "UnderReview")
        IN IF all_polyps = <<>> THEN <<>> ELSE normalize(<<score_row(all_polyps)>>)] @@ <<>>

\* tide.rs run_scoring_pipeline: the matrix is replaced and the Soft
\* capsules are saved UnderReview
review_scoring(r) ==
    IF review_scores[<<r.soft, r.under_review>>] = <<>> THEN r
    ELSE [r EXCEPT !.weights = review_scores[<<r.soft, r.under_review>>],
                   !.under_review = r.soft \cup r.under_review,
                   !.soft = {}]

\* the matrices the Scoring handler can leave to a boundary
ReviewMatrices == {review_scores[pool] : pool \in ReviewPools} \ {<<>>}

\* consensus_runner.rs run_epoch_consensus steps 2-5 on each of these
\* matrices: one validator of stake 100, no previous bonds
review_consensus_weights ==
    [weights \in ReviewMatrices |->
        yuma_semantic_consensus(<<100>>, weights, <<>>, KAPPA, BOND_PENALTY,
                                ALPHA).consensus_weights] @@ <<>>

\* consensus_runner.rs run_epoch_consensus steps 1-6: consensus on the
\* matrix, and the listed UnderReview capsules whose consensus weight is
\* above the threshold
review_consensus(r) ==
    IF Len(r.weights) = 0 \/ Len(r.weights[1]) = 0 THEN <<>>
    ELSE approved_from(review_list(r.under_review, "UnderReview"),
                       review_consensus_weights[r.weights], 1)

\* consensus_runner.rs run_epoch_consensus step 7: the approved capsules
\* are saved Approved
review_boundary(r, approved_polyps) ==
    [r EXCEPT !.under_review = @ \ {approved_polyps[k].id : k \in DOMAIN approved_polyps},
              !.approved = @ \cup {approved_polyps[k].id : k \in DOMAIN approved_polyps}]

\* the phase of a block by its position in the epoch
phase_in_epoch(block_in_epoch) ==
    EpochManager_advance_block(EpochManager_new, block_in_epoch).phase

ReviewInit ==
    /\ db = EmptyDb
    /\ DaemonInit
    /\ StoreIdle
    /\ EpochIdle
    /\ hs_calls = <<>>
    /\ yuma_call = None
    /\ vbf = None
    /\ state_machine = None
    /\ receivers = <<>>
    /\ proc = Process("tide")
    /\ \E S \in SUBSET ReviewIds :
          review = Some([block_in_epoch |-> 0, soft |-> S, under_review |-> {},
                         approved |-> {}, weights |-> WeightMatrix_new(0, 0)])

\* scheduler.rs advance_block and the handlers of the events it sends: the
\* boundary handler when the epoch ends, the Scoring handler when the
\* Scoring phase begins
ReviewBlock ==
    /\ IsSome(review)
    /\ \E r \in {Unwrap(review)} :
       \E b \in {(r.block_in_epoch + 1) % BlocksPerEpoch} :
       \E approved_polyps \in {IF b = 0 THEN review_consensus(r) ELSE <<>>} :
       \E bounded \in {review_boundary(r, approved_polyps)} :
       \E scored \in {IF phase_in_epoch(b) # phase_in_epoch(r.block_in_epoch)
                          /\ phase_in_epoch(b) = "Scoring"
                       THEN review_scoring(bounded) ELSE bounded} :
           review' = Some([scored EXCEPT !.block_in_epoch = b])
    /\ UNCHANGED <<db, vector_index, local_cache, sharedVars, schedVars, chanVars, tide, sy, rp,
                   storeVars, updates, pushes, submitted, served, rpc, epochVars, hs_calls,
                   yuma_call, proc, vbf, state_machine, receivers, budget>>

ReviewNext == ReviewBlock

ReviewSpec == ReviewInit /\ [][ReviewNext]_vars /\ WF_vars(ReviewBlock)

(***************************************************************************)
(* StateSpec: the NodeStateMachine (chitin-daemon/src/state.rs) under any  *)
(* sequence of requested transitions.                                      *)
(***************************************************************************)
\* number of transitions requested of one state machine
MaxTransitions == 3

NodeState == {"Initializing", "Syncing", "Ready", "Validating", "ShuttingDown"}

\* NodeStateMachine::new
NodeStateMachine_new == [current |-> "Initializing"]

\* a match that accepts every pair
transition_valid_any(current, new_state) == TRUE

\* the match of lines 66-72
transition_valid(current, new_state) ==
    \/ current = "Initializing" /\ new_state = "Syncing"
    \/ current = "Syncing" /\ new_state = "Ready"
    \/ current = "Ready" /\ new_state = "Validating"
    \/ current = "Validating" /\ new_state = "Ready"

\* NodeStateMachine::transition: the machine after the call and its result
transition(sm, new_state) ==
    IF new_state = "ShuttingDown"
    THEN [sm |-> [sm EXCEPT !.current = new_state], ok |-> TRUE]
    ELSE IF transition_valid(sm.current, new_state)
         THEN [sm |-> [sm EXCEPT !.current = new_state], ok |-> TRUE]
         ELSE [sm |-> sm, ok |-> FALSE]

StateInit ==
    /\ db = EmptyDb
    /\ DaemonInit
    /\ StoreIdle
    /\ EpochIdle
    /\ hs_calls = <<>>
    /\ yuma_call = None
    /\ vbf = None
    /\ receivers = <<>>
    /\ review = None
    /\ proc = Process("tide")
    /\ state_machine = Some([sm |-> NodeStateMachine_new, log |-> <<>>])

\* state_machine.transition(new_state); log is history: the state before
\* the call, the state requested, the result and the state after
Transition(new_state) ==
    /\ IsSome(state_machine)
    /\ Len(Unwrap(state_machine).log) < MaxTransitions
    /\ LET s == Unwrap(state_machine)
           r == transition(s.sm, new_state)
       IN state_machine' = Some([sm |-> r.sm,
              log |-> Append(s.log, [from |-> s.sm.current, to |-> new_state,
                                     ok |-> r.ok, after |-> r.sm.current])])
    /\ UNCHANGED <<db, vector_index, local_cache, sharedVars, schedVars, chanVars, tide, sy, rp,
                   storeVars, updates, pushes, submitted, served, rpc, epochVars, hs_calls,
                   yuma_call, proc, vbf, receivers, review, budget>>

StateNext == \E new_state \in NodeState : Transition(new_state)

StateSpec == StateInit /\ [][StateNext]_vars

(***************************************************************************)
(* Claims about the daemon.                                                *)
(***************************************************************************)
\* the edges of the capsule state machine
StateEdges ==
    {<<"Draft", "Soft">>, <<"Soft", "UnderReview">>, <<"UnderReview", "Approved">>,
     <<"UnderReview", "Rejected">>, <<"Approved", "Hardened">>, <<"Rejected", "Hardened">>,
     <<"Hardened", "Molted">>}

\* capsule id is stored, before and after the step, with different states
StateChanges(id) ==
    /\ IsSome(db.polyp[id])
    /\ IsSome(db'.polyp[id])
    /\ Unwrap(db.polyp[id]).state # Unwrap(db'.polyp[id]).state

\* C1: under every interleaving of the Scoring handler, the boundary handler,
\* the hardening pipeline, peer/receive_polyp and pull-sync, each change of a
\* capsule's stored state follows an edge of the state machine.
C1_StateMachineOrder ==
    [][\A id \in Ids :
         StateChanges(id) =>
             <<Unwrap(db.polyp[id]).state, Unwrap(db'.polyp[id]).state>> \in StateEdges]_vars

\* C2: once a capsule is stored with state Hardened, every later step leaves
\* its hardening lineage (cid and merkle_root) in the primary store as it was.
C2_HardenedLineageImmutable ==
    [][\A id \in Ids :
         (IsSome(db.polyp[id]) /\ Unwrap(db.polyp[id]).state = "Hardened") =>
             /\ IsSome(db'.polyp[id])
             /\ Unwrap(db'.polyp[id]).hardening = Unwrap(db.polyp[id]).hardening]_vars

\* the boundary handler has listed the UnderReview capsules and chosen the approved
AtApproval == tide.pc = "approve_save" /\ tide.k = 1

\* the columns of the weight matrix into which Scoring wrote the score of capsule id
ColumnsOf(id) == {c \in 1..Len(wm_ids) : wm_ids[c] = id}

\* the consensus weight computed from the capsule's own score is above the threshold
OwnWeightAbove(id) ==
    \E c \in ColumnsOf(id) :
        /\ c <= Len(Unwrap(tide.result).consensus_weights)
        /\ RatGt(Unwrap(tide.result).consensus_weights[c], APPROVAL_THRESHOLD)

\* C3: at an epoch boundary a listed UnderReview capsule is approved exactly
\* when the consensus weight computed from its own score is greater than 0.3.
C3_ApprovedByOwnWeight ==
    AtApproval =>
        \A j \in 1..Len(tide.listed) :
            (\E k \in 1..Len(tide.polyps) : tide.polyps[k].id = tide.listed[j].id)
                <=> OwnWeightAbove(tide.listed[j].id)

\* the program counters of run_epoch_consensus and of the hardening pipeline
BoundaryPcs == {"read_weights", "list_under_review", "approve_save", "harden_store",
                "harden_pin", "harden_save", "blocked", "finish"}
HardeningPcs == {"harden_store", "harden_pin", "harden_save", "blocked"}

\* C4: while the boundary handler for the boundary that opens epoch e runs (from
\* its read of the weight matrix on), every Scoring handler started for an
\* earlier epoch has returned, so all its writes and saves are done.
C4_ScoringCompletesFirst ==
    tide.pc \in BoundaryPcs =>
        \A e \in scoring.started : e < tide.epoch => e \in scoring.done

\* a boundary handler reads a weight matrix that a completed Scoring handler wrote
C4_Witness ==
    /\ tide.pc = "list_under_review"
    /\ (tide.epoch - 1) \in scoring.done
    /\ wm_ids # <<>>

\* C5: while approved capsules are in the hands of the hardening pipeline, the
\* consensus result of this boundary is the published last consensus result.
C5_PublishedBeforeHardening ==
    tide.pc \in HardeningPcs => last_consensus_result = tide.result /\ IsSome(tide.result)

\* the pipeline is hardening an approved capsule
C5_Witness ==
    /\ tide.pc = "harden_save"
    /\ tide.polyps # <<>>
    /\ IsSome(last_consensus_result)

\* the step is a successful harden_single_polyp of the capsule in hand
HardenedStep == tide.pc = "harden_save" /\ tide'.hardened_count = tide.hardened_count + 1

\* C6: a capsule approved at this boundary and then hardened is saved with
\* state Hardened, its lineage, and the ConsensusMetadata of its approval
\* (epoch, final_score = its consensus weight) with hardened = TRUE.
C6_HardenedKeepsConsensus ==
    [][HardenedStep =>
         LET id == tide.polyps[tide.k].id
             cw == Unwrap(tide.result).consensus_weights
             approval == ConsensusMetadata(tide.epoch, tide.listed, cw, id)
         IN /\ IsSome(db'.polyp[id])
            /\ Unwrap(db'.polyp[id]).state = "Hardened"
            /\ Unwrap(db'.polyp[id]).hardening = tide.lineage
            /\ Unwrap(db'.polyp[id]).consensus = Some([approval EXCEPT !.hardened = TRUE])]_vars

\* the step is a failed harden_single_polyp (at the store, the pin or the save)
HardenFailedStep ==
    /\ tide.pc \in {"harden_store", "harden_pin", "harden_save"}
    /\ tide'.failed = tide.failed \cup {tide.polyps[tide.k].id}
    /\ tide'.failed # tide.failed

\* C7: when a step of hardening a capsule fails, the primary store keeps the
\* capsule as it was, and the pipeline goes on to the next approved capsule
\* (or, after the last one, to the rest of the boundary handler).
C7_FailureLeavesCapsule ==
    [][HardenFailedStep =>
         /\ db'.polyp = db.polyp
         /\ tide'.k = tide.k + 1
         /\ tide'.pc = IF tide.k < Len(tide.polyps) THEN "harden_store" ELSE "finish"]_vars

\* C8: once the boundary handler has handed capsules to the hardening
\* pipeline it eventually returns to the validator loop, whatever the
\* content-addressed backend does.
C8_BoundaryReturns == (tide.pc = "harden_store") ~> (tide.pc = "idle")

\* the step is an advance_block of the scheduler
BlockAdvanced == current_block' # current_block
\* the events sent to the channel in the step: the last ones queued
Sent ==
    LET n == Len(event_q') + (lagged' - lagged) - Len(event_q)
    IN SubSeq(event_q', Len(event_q') - n + 1, Len(event_q'))
SentOfType(type) == {i \in DOMAIN Sent : Sent[i].type = type}

\* C12: an advance_block of the scheduler sends a PhaseChanged event exactly
\* when the phase of the new block differs from the phase before, once, and
\* the event carries the new epoch, the new phase and the new block.
C12_PhaseChangedIffPhaseDiffers ==
    [][BlockAdvanced =>
        /\ Cardinality(SentOfType("PhaseChanged")) =
               (IF epoch_manager'.phase # epoch_manager.phase THEN 1 ELSE 0)
        /\ \A i \in SentOfType("PhaseChanged") :
               /\ Sent[i].epoch = epoch_manager'.current_epoch
               /\ Sent[i].phase = epoch_manager'.phase
               /\ Sent[i].block = current_block']_vars

\* the PhaseChanged event of the block just reached is queued
C12_Witness ==
    \E i \in DOMAIN event_q :
        /\ event_q[i].type = "PhaseChanged"
        /\ event_q[i].block = current_block
        /\ event_q[i].phase = epoch_manager.phase

\* C13: an advance_block of the scheduler sends an EpochBoundary event exactly
\* when the epoch of the new block differs from the epoch before, exactly
\* one per change, and the event carries the new epoch and the new block.
C13_EpochBoundaryIffEpochDiffers ==
    [][BlockAdvanced =>
        /\ Cardinality(SentOfType("EpochBoundary")) =
               (IF epoch_manager'.current_epoch # epoch_manager.current_epoch THEN 1 ELSE 0)
        /\ \A i \in SentOfType("EpochBoundary") :
               /\ Sent[i].epoch = epoch_manager'.current_epoch
               /\ Sent[i].block = current_block']_vars

\* the EpochBoundary event of the epoch just started is queued
C13_Witness ==
    \E i \in DOMAIN event_q :
        /\ event_q[i].type = "EpochBoundary"
        /\ event_q[i].epoch = epoch_manager.current_epoch
        /\ event_q[i].block = current_block
        /\ epoch_manager.current_epoch > 0

\* the step is the validator's recv returning Err(Lagged(n))
LagReported == lagged > 0 /\ lagged' = 0

\* C14: when recv reports a lag the validator loop changes no capsule state
\* (store, vector index, hardened store) and no matrix state, stays in its
\* loop, idle, with the queued events untouched, so its next recv delivers
\* the oldest event still queued; and a step that leaves the loop is the
\* shutdown arm, not the handling of anything the channel delivered.
C14_LagOnlyLogged ==
    [][/\ LagReported =>
            /\ UNCHANGED <<db, vector_index, local_cache, matrixVars, scoring>>
            /\ tide'.pc = "idle"
            /\ event_q' = event_q
       /\ (tide'.pc = "stopped" /\ tide.pc # "stopped") => UNCHANGED chanVars]_vars

\* the Scoring event of epoch 0 was overwritten before the validator received
\* it, the lag was reported, and the validator now handles the boundary
C14_Witness ==
    /\ lagged = 0
    /\ scoring.started = {}
    /\ tide.pc = "read_weights"
    /\ tide.epoch = 1

\* the step is the return of run_scoring_pipeline after its transition loop
ScoringReturns == tide.pc = "score_save" /\ tide'.pc = "idle"

\* C15: when the Scoring handler returns, every capsule it listed in state
\* Soft (and scored) is stored in state UnderReview.
C15_ScoredSoftUnderReview ==
    [][ScoringReturns =>
        \A i \in DOMAIN tide.polyps :
            tide.polyps[i].state = "Soft" =>
                /\ IsSome(get_polyp_sync(db', tide.polyps[i].id))
                /\ Unwrap(get_polyp_sync(db', tide.polyps[i].id)).state = "UnderReview"]_vars

\* the steps of run_scoring_pipeline
ScoringPcs == {"score_list_soft", "score_list_under_review", "score_save"}

\* C16: the weight matrix has a single writer: every step that changes it is
\* a step of the validator's Scoring handler.
C16_WeightMatrixSingleWriter ==
    [][weight_matrix' # weight_matrix => tide.pc \in ScoringPcs /\ tide' # tide]_vars

(***************************************************************************)
(* Claims about the peer handlers.                                         *)
(***************************************************************************)
\* the step is the first part of a peer/receive_polyp call, up to the dedup check
ReceiveChecked == rp.pc = "idle" /\ rp' # rp
\* the id of the capsule of that call
ReceivedId == IF rp'.pc = "save" THEN Unwrap(rp'.polyp).id ELSE Unwrap(rp'.resp).id
\* the capsule is stored (it has a primary record)
Stored(d, id) == IsSome(get_polyp_sync(d, id))

PeerUrls == {Peers[i] : i \in DOMAIN Peers}

\* C18: gossip is single-hop: a step that sends pushes is a local polyp/submit
\* (never the handling of a peer/receive_polyp call or a pull-sync step), and
\* every push sent carries a capsule submitted on this node, to one of this
\* node's configured peers.
C18_SingleHopGossip ==
    [][/\ pushes' # pushes => submitted' # submitted
       /\ \A push \in pushes' : push[1] \in PeerUrls /\ push[2] \in submitted']_vars

\* a submitted capsule was pushed to every configured peer, and a capsule
\* received from a peer is stored and was pushed to nobody
C18_Witness ==
    \E i \in submitted, j \in Ids \ submitted :
        /\ pushes = {<<u, i>> : u \in PeerUrls}
        /\ Stored(db, j)
        /\ j \in vector_index

\* the ids of the capsules stored on the node
StoredIds(d) == {i \in Ids : Stored(d, i)}

\* C19: as long as no save has failed, the local id set a pull-sync round
\* starts with, and the id list peer/list_polyp_ids serves, hold the id of
\* every stored capsule, whatever its state.
C19_IdsOfAllStates ==
    [][budget.faults = 0 =>
        /\ (sy.pc = "idle" /\ sy'.pc = "fetch_ids") => sy'.local_ids = StoredIds(db)
        /\ served' # served => {served'[k] : k \in DOMAIN served'} = StoredIds(db)]_vars

(***************************************************************************)
(* Claims about the metagraph manager.                                     *)
(***************************************************************************)
\* the calls of a history that returned Ok
Accepted(h) == {i \in DOMAIN h : h[i].result = Ok}
\* the epoch of the last accepted snapshot of a history with one
LastAccepted(h) == h[CHOOSE i \in Accepted(h) : \A j \in Accepted(h) : j <= i].epoch

\* C11: update(m) returns Ok exactly when no snapshot was accepted before or
\* m.epoch is strictly greater than the epoch of the last accepted one;
\* otherwise it returns Consensus("Stale epoch: got X but last was Y") and
\* leaves the current snapshot and the last epoch as they were; the epoch
\* of current() never decreases, and is m.epoch after an Ok.
C11_StaleEpochRejected ==
    [][updates' # updates =>
        LET call == updates'[Len(updates')]
            fresh == Accepted(updates) = {} \/ call.epoch > LastAccepted(updates)
        IN /\ call.result = Ok <=> fresh
           /\ fresh => /\ IsSome(metagraph_manager'.current)
                       /\ Unwrap(metagraph_manager'.current).epoch = call.epoch
                       /\ metagraph_manager'.last_epoch = Some(call.epoch)
           /\ ~fresh => /\ call.result = StaleEpoch(call.epoch, LastAccepted(updates))
                        /\ metagraph_manager' = metagraph_manager
           /\ IsSome(metagraph_manager.current) =>
                  /\ IsSome(metagraph_manager'.current)
                  /\ Unwrap(metagraph_manager'.current).epoch
                         >= Unwrap(metagraph_manager.current).epoch]_vars

\* the updates 5, 5, 3, 6: Ok, stale, stale, Ok, and current().epoch is 6
C11_Witness ==
    /\ updates = <<[epoch |-> 5, result |-> Ok],
                   [epoch |-> 5, result |-> StaleEpoch(5, 5)],
                   [epoch |-> 3, result |-> StaleEpoch(3, 5)],
                   [epoch |-> 6, result |-> Ok]>>
    /\ Unwrap(metagraph_manager.current).epoch = 6

(***************************************************************************)
(* Claims about the capsule store.                                         *)
(***************************************************************************)
\* the index tags under which capsule id has an entry
IndexTags(d, id) == {tg \in {state_tag(s) : s \in PolypState} : <<tg, id>> \in d.state}

\* C9: save is atomic with respect to the state index: at every moment every
\* stored capsule has exactly one state-index entry, and that entry is under
\* the tag of the state held in its primary record.
C9_SaveAtomicWithIndex ==
    \A id \in Ids :
        IsSome(db.polyp[id]) => IndexTags(db, id) = {state_tag(Unwrap(db.polyp[id]).state)}

\* C10: a completed list_by_state(s) returns only capsules whose stored state
\* is s (every returned record carries state s), also while other tasks save.
C10_ListOnlyState ==
    ls.pc = "done" => \A k \in 1..Len(ls.out) : ls.out[k].state = ls.state

(***************************************************************************)
(* Claims about the EpochManager.                                          *)
(***************************************************************************)
\* the phase of block b in epochs of n blocks, by the fraction (b mod n) / n
PhaseOf(b, n) ==
    IF 2 * (b % n) < n THEN "Open"
    ELSE IF 4 * (b % n) < 3 * n THEN "Scoring"
    ELSE "Committing"

\* C23: after advance_block(b) on a manager with blocks_per_epoch = N, the
\* epoch is b div N and the phase is Open if (b mod N) / N < 0.50, Scoring if
\* it is < 0.75, else Committing, whatever the calls before it
C23_EpochAndPhaseOfBlock ==
    /\ manager.current_epoch = height \div manager.blocks_per_epoch
    /\ manager.phase = PhaseOf(height, manager.blocks_per_epoch)

(***************************************************************************)
(* Claims about the RPC server.                                            *)
(***************************************************************************)
\* dispatch answered a request for the method
AnsweredMethod(method) == rpc' # rpc /\ Unwrap(rpc').method = method

\* C21: a request whose method is not in the dispatch table is answered with
\* success = false, no result and the error "Unknown method: <m>", and the
\* store, the index and the shared consensus and epoch state stay as they are
C21_UnknownMethod ==
    [][\A m \in UnknownMethods :
          AnsweredMethod(m) =>
              /\ Unwrap(rpc').response =
                     [success |-> FALSE, result |-> None,
                      error |-> Some(<<"Unknown method: ", m>>)]
              /\ UNCHANGED <<db, vector_index, local_cache, sharedVars, schedVars>>]_vars

\* an unknown method was answered on a node that has scored capsules
C21_Witness ==
    /\ IsSome(rpc)
    /\ Unwrap(rpc).method \in UnknownMethods
    /\ ~Unwrap(rpc).response.success
    /\ Len(weight_matrix) > 0

\* the SubmitScoresResponse of the request that was answered
ScoresResponse == Unwrap(Unwrap(rpc').response.result)

\* C30: validation/scores accepts a submission only on a server with epoch
\* manager, when the epoch of the request is the current one and the phase
\* is Scoring or Committing; a submission answered with accepted = false
\* leaves the weight matrix as it was
C30_ScoresAcceptedInPhase ==
    [][/\ AnsweredMethod("validation/scores") =>
              /\ ScoresResponse.accepted =>
                     /\ Unwrap(rpc').params.epoch = epoch_manager.current_epoch
                     /\ epoch_manager.phase \in {"Scoring", "Committing"}
              /\ ~ScoresResponse.accepted => weight_matrix' = weight_matrix
       /\ \A epoch \in 0..1 :
              SubmitScoresUnconfigured(epoch, 0, Rat(1, 1)) => ~ScoresResponse.accepted]_vars

\* an accepted submission has written its weight, and the last one was refused
C30_Witness ==
    /\ IsSome(rpc)
    /\ Unwrap(rpc).method = "validation/scores"
    /\ ~Unwrap(Unwrap(rpc).response.result).accepted
    /\ Len(weight_matrix) > 0
    /\ weight_matrix[1][1] = Rat(1, 1)

(***************************************************************************)
(* Claims about the HardenedStore.                                         *)
(***************************************************************************)
\* call k of the run is a get_hardened(cid) that returned
GetCall(k, cid) == hs_calls[k].op = "get_hardened" /\ hs_calls[k].cid = cid

\* call k is a store_hardened that returned Ok(cid)
StoreReturned(k, cid) ==
    /\ hs_calls[k].op = "store_hardened"
    /\ hs_calls[k].result = RpcOk(cid)

C22_FailureIsReported ==
    [][(AnsweredMethod("query/cid") /\ ~hs_calls'[Len(hs_calls')].result.ok) =>
           /\ ~Unwrap(rpc').response.success
           /\ IsSome(Unwrap(rpc').response.error)]_vars

(***************************************************************************)
(* Claims about yuma_semantic_consensus.                                   *)
(***************************************************************************)
\* the call of YumaSpec has returned or panicked
YumaReturned == IsSome(yuma_call) /\ IsSome(Unwrap(yuma_call).result)
YumaArgs == Unwrap(yuma_call)
YumaResult == Unwrap(Unwrap(yuma_call).result)

AllZero(row) == \A k \in 1..Len(row) : row[k] = Zero

\* the number of corals of a call: the length of the first row of the matrix
CoralsOf(weights) == IF weights = <<>> THEN 0 ELSE Len(weights[1])

\* C24: when every validator's stake is 0, the call returns without panic and
\* every consensus weight, incentive, dividend and bond of the result is zero;
\* stated here for the matrices that have a full row for every validator
C24_ZeroStakeAllZero ==
    (/\ YumaReturned
     /\ YumaArgs.stakes # <<>>
     /\ \A i \in 1..Len(YumaArgs.stakes) : YumaArgs.stakes[i] = 0
     /\ index_in_bounds(Len(YumaArgs.stakes), CoralsOf(YumaArgs.weights), YumaArgs.weights))
    => /\ ~YumaResult.panicked
       /\ AllZero(YumaResult.consensus_weights)
       /\ AllZero(YumaResult.incentives)
       /\ AllZero(YumaResult.dividends)
       /\ \A i \in 1..Len(YumaResult.bonds) : AllZero(YumaResult.bonds[i])

\* C25: for non-empty stakes and weights and previous bonds of any shape the
\* call returns without panic, with consensus weights and incentives of
\* length n_c, dividends of length n_v and bonds of shape n_v x n_c; empty
\* stakes yield empty outputs
C25_ShapesNoPanic ==
    YumaReturned =>
        LET n_v == Len(YumaArgs.stakes)
            n_c == IF n_v = 0 THEN 0 ELSE CoralsOf(YumaArgs.weights)
        IN /\ ~YumaResult.panicked
           /\ Len(YumaResult.consensus_weights) = n_c
           /\ Len(YumaResult.incentives) = n_c
           /\ Len(YumaResult.dividends) = n_v
           /\ Len(YumaResult.bonds) = n_v
           /\ \A i \in 1..n_v : Len(YumaResult.bonds[i]) = n_c

RECURSIVE StakeOf(_, _)
StakeOf(S, stakes) ==
    IF S = {} THEN 0
    ELSE LET i == CHOOSE x \in S : TRUE IN stakes[i] + StakeOf(S \ {i}, stakes)

\* the smallest weight of a column at which the stake of the validators with
\* at most that weight is the fraction kappa of the total stake
SmallestReaching(col, stakes, kappa) ==
    LET n == Len(stakes)
        reaches(w) == kappa.d * StakeOf({k \in 1..n : ~RatGt(col[k], w)}, stakes)
                          >= kappa.n * StakeOf(1..n, stakes)
        reaching == {col[i] : i \in {k \in 1..n : reaches(col[k])}}
    IN CHOOSE w \in reaching : \A u \in reaching : ~RatGt(w, u)

\* C26: the consensus weight of a column is the smallest weight at which the
\* cumulative normalised stake of the validators, in ascending order of
\* weight, reaches kappa; the documented example yields [0.8, 0.2].  The
\* general part is stated for stakes whose sum the floats hold exactly
C26_StakeWeightedMedian ==
    (YumaReturned /\ ~YumaResult.panicked)
    => LET stakes == YumaArgs.stakes
           n_v == Len(stakes)
           total == StakeOf(1..n_v, stakes)
       IN /\ (/\ total > 0
              /\ f64_sum([i \in 1..n_v |-> as_f64(stakes[i])]) = Rat(total, 1))
             => \A j \in 1..CoralsOf(YumaArgs.weights) :
                    YumaResult.consensus_weights[j] =
                        SmallestReaching([i \in 1..n_v |-> normalize(YumaArgs.weights)[i][j]],
                                         stakes, KAPPA)
          /\ stakes = <<900, 100>> =>
                 YumaResult.consensus_weights = <<f64(Rat(8, 10)), f64(Rat(2, 10))>>

(***************************************************************************)
(* Claims about the metagraph snapshot of the boundary handler.            *)
(***************************************************************************)
\* the capsules stored in state Hardened
HardenedIds(d) ==
    {i \in Ids : Stored(d, i) /\ Unwrap(get_polyp_sync(d, i)).state = "Hardened"}

\* the boundary handler has published its snapshot in this step
SnapshotPublished ==
    /\ tide.pc = "finish"
    /\ metagraph_manager' # metagraph_manager

\* C27: the snapshot the boundary handler publishes has total_hardened_polyps
\* equal to the number of capsules that are stored in state Hardened when it
\* is published; stated for runs in which no storage call has failed
C27_TotalHardenedToDate ==
    [][(SnapshotPublished /\ budget.faults = 0) =>
          Unwrap(metagraph_manager'.current).total_hardened_polyps =
              Cardinality(HardenedIds(db'))]_vars

(***************************************************************************)
(* Claims about shutdown.                                                  *)
(***************************************************************************)
\* the validator loop has ended: it broke out of its loop, or was dropped
TideExited(t) == t.pc \in {"stopped", "dropped"}

\* C29: a handler of the validator loop that is in flight when the OS
\* shutdown signal arrives runs to completion before the loop's task exits,
\* in tide and in hybrid mode; stated for the Scoring handler: once the loop
\* has ended, the handler that was running at the signal has returned
C29_HandlerDrained ==
    TideExited(tide) => proc.in_flight \subseteq scoring.done

(***************************************************************************)
(* Claims about the Bloom-style filter.                                    *)
(***************************************************************************)
VbfRestored == IsSome(vbf) /\ IsSome(Unwrap(vbf).restored)

\* C31: to_bytes and from_bytes round-trip: from_bytes of the bytes of a
\* filter succeeds, and the restored filter answers contains(x) = true,
\* without a panic, for every x that was inserted into the filter.
C31_RoundTripNoFalseNegative ==
    VbfRestored =>
        LET restored == Unwrap(Unwrap(vbf).restored)
        IN /\ restored.ok
           /\ \A x \in Unwrap(vbf).inserted :
                 /\ offsets_in_bounds(restored.value.inner, x)
                 /\ contains(restored.value, x)

\* a filter with two ids inserted, and one not, was written and read back
C31_Witness ==
    /\ VbfRestored
    /\ Unwrap(Unwrap(vbf).restored).ok
    /\ Cardinality(Unwrap(vbf).inserted) = 2
    /\ \E x \in Uuids \ Unwrap(vbf).inserted :
          ~contains(Unwrap(Unwrap(vbf).restored).value, x)

(***************************************************************************)
(* Claims about the node state machine.                                    *)
(***************************************************************************)
\* the transitions the node state machine is to accept
NodeEdges ==
    {<<"Initializing", "Syncing">>, <<"Syncing", "Ready">>, <<"Ready", "Validating">>,
     <<"Validating", "Ready">>}
    \cup {<<s, "ShuttingDown">> : s \in NodeState}

TransitionLog == Unwrap(state_machine).log

SyncHandlesFetched == sy.pc = "fetch_polyp" /\ sy' # sy

\* C32: pull-sync saves a fetched capsule only when its id is missing from
\* the local store at the moment of the save: as long as no save has failed,
\* a capsule that is stored when the fetched copy is handled is left as it
\* is stored.
C32_SyncSavesOnlyMissing ==
    [][(SyncHandlesFetched /\ budget'.faults = 0 /\ Stored(db, Head(sy.missing))) =>
        get_polyp_sync(db', Head(sy.missing)) = get_polyp_sync(db, Head(sy.missing))]_vars

\* the answer of handler h, once it has answered
Answer(h) == Unwrap(receivers[h].resp)

\* handlers g and h have both answered a request for the same capsule id
SameIdAnswered(g, h) ==
    /\ g # h
    /\ IsSome(receivers[g].resp) /\ IsSome(receivers[h].resp)
    /\ "id" \in DOMAIN Answer(g) /\ "id" \in DOMAIN Answer(h)
    /\ Answer(g).id = Answer(h).id

\* C33: of two peer/receive_polyp requests for the same new capsule id that
\* are handled at the same time, exactly one is answered accepted = true
\* (and saved the capsule) and the other duplicate = true: as long as no
\* save has failed, two handlers never both answer accepted for one id.
C33_OneReceiverAccepts ==
    budget.faults = 0 =>
        \A g, h \in DOMAIN receivers :
            SameIdAnswered(g, h) => ~(Answer(g).accepted /\ Answer(h).accepted)

(***************************************************************************)
(* Claims about the epoch boundary and the scores it reads.                *)
(***************************************************************************)
\* the boundary handler returns to the validator loop in this step
BoundaryReturns == tide.pc \in BoundaryPcs \cup HardeningPcs /\ tide'.pc = "idle"

\* C34: when the boundary handler of epoch e returns, the published
\* metagraph snapshot is the one of epoch e (current().epoch = e), also at
\* a boundary with no capsule to score; stated for runs without a failed
\* storage call.
C34_SnapshotPerBoundary ==
    [][(BoundaryReturns /\ budget'.faults = 0) =>
          /\ IsSome(metagraph_manager'.current)
          /\ Unwrap(metagraph_manager'.current).epoch = tide.epoch]_vars

\* the boundary handler reads a weight matrix that holds scores and runs
\* consensus on it
ConsensusOnScores == tide.pc = "read_weights" /\ tide'.pc = "list_under_review"

\* C35: the scores the boundary handler that ends epoch e runs consensus on
\* were written by the Scoring handler of epoch e (the boundary event
\* carries the epoch it opens, e + 1); scoring.wrote is the epoch of the
\* Scoring handler that last replaced the matrix.
C35_ScoresOfThisEpoch ==
    [][ConsensusOnScores => scoring.wrote = {tide.epoch - 1}]_vars

(***************************************************************************)
(* Claims about capsules that wait for a decision or for hardening.        *)
(***************************************************************************)
\* the capsules stored in a state
StoredIn(d, state) ==
    {i \in Ids : Stored(d, i) /\ Unwrap(get_polyp_sync(d, i)).state = state}

\* C37: a capsule that is Approved is hardened by a later epoch boundary
\* once the content-addressed backend is available: a boundary handler that
\* returns without a hardening failure of its own, in a run without failed
\* storage calls, leaves no capsule stored in state Approved.
C37_ApprovedIsHardened ==
    [][(BoundaryReturns /\ tide.failed = {} /\ budget'.faults = 0) =>
          StoredIn(db', "Approved") = {}]_vars

\* a capsule that is stored Approved while no handler has it in hand is not
\* changed by any step
ApprovedIsLeft ==
    [][\A i \in StoredIn(db, "Approved") :
          (tide.pc \in {"idle", "read_weights", "list_under_review", "score_list_soft",
                        "score_list_under_review"} /\ budget'.faults = 0) =>
              get_polyp_sync(db', i) = get_polyp_sync(db, i)]_vars

\* C36: every capsule that enters UnderReview eventually leaves it, for
\* Approved or Rejected, as epochs keep advancing, whatever the number of
\* capsules under review.
C36_UnderReviewIsDecided ==
    \A i \in ReviewIds :
        (IsSome(review) /\ i \in Unwrap(review).under_review)
            ~> (IsSome(review) /\ i \notin Unwrap(review).under_review)

\* hardened.rs is_hardened lines 117-120: the id has a cid mapping
is_hardened(cache, polyp_id) == IsSome(cache.map[polyp_id])

\* C38: outside a hardening step (the validator loop is idle) and without
\* failed storage calls, is_hardened(id) is true exactly when the capsule is
\* stored in state Hardened, and the mapped cid is the capsule's
\* hardening.cid, also after a hardening that failed part-way.
C38_MappingAgreesWithStore ==
    (tide.pc = "idle" /\ budget.faults = 0) =>
        \A i \in Ids :
            /\ is_hardened(local_cache, i) <=> i \in HardenedIds(db)
            /\ is_hardened(local_cache, i) =>
                  Unwrap(local_cache.map[i]) = Unwrap(Unwrap(get_polyp_sync(db, i)).hardening).cid

\* C39: for every configured blocks_per_epoch, no block step of the scheduler
\* panics, and a step that sends the EpochBoundary ending an epoch comes
\* after the PhaseChanged Scoring of that epoch was sent.
C39_ScoringBeforeBoundary ==
    [][/\ proc'.scheduler # "panicked"
       /\ epoch_manager'.current_epoch > epoch_manager.current_epoch =>
             epoch_manager.current_epoch \in scoring.sent]_vars

====
